---- MODULE Spec2Model ----
(***************************************************************************)
(* Model of the wiz dependency resolver (source/wiz/graph.py) together     *)
(* with the registry query it relies on (source/wiz/definition.py).        *)
(*                                                                         *)
(* Conventions of the model                                                *)
(*  - A version "x.y" is the natural number 10*x + y, so that the order of *)
(*    versions and the order of their strings agree.                       *)
(*  - A node identifier, the string "name[variant]==version" built by      *)
(*    _Node.generate_identifier, is the record [name, variant, version];   *)
(*    IdLess is the order of the strings.                                  *)
(*  - Python objects that are shared by reference (the _Node objects, the  *)
(*    inner dictionaries of Graph._link_mapping and the sets of            *)
(*    Graph._definition_mapping) live in a heap; a graph holds references. *)
(*  - None, as a priority, is the number -1: Python 2 orders None before   *)
(*    every number.                                                        *)
(*  - An exception is the name of its class in the field err.              *)
(*  - The iteration order of a dict or a set is a free choice.             *)
(***************************************************************************)
EXTENDS Integers, Sequences, FiniteSets, TLC

VARIABLES
    reg,          \* index of the registry handed to Resolver.__init__
    requests,     \* the requirements handed to compute_definitions
    pc,           \* position inside compute_definitions
    heap,         \* objects shared by reference between graphs
    graph,        \* the graph popped by compute_definitions
    identifiers,  \* the conflict list of resolve_conflicts
    stack,        \* Resolver._graphs_stack (last element = top)
    result,       \* what compute_definitions returned or raised
    runs,         \* number of compute_definitions calls started on this resolver
    previous,     \* result of the preceding call with the same arguments
    tags,         \* history: for each stack entry, the division that pushed it
    division,     \* history: the last division performed
    attempts,     \* history: tags of the graphs popped and not divided, in order
    caught        \* history: the exceptions compute_definitions caught, in order

vars == <<reg, requests, pc, heap, graph, identifiers, stack, result, runs,
          previous, tags, division, attempts, caught>>

-----------------------------------------------------------------------------
(* Bounds of the model *)

\* Longest request list handed to compute_definitions.
MaxRequests == 2

\* Number of compute_definitions calls on the same arguments.
MaxRuns == 2

\* Number of queue pops after which compute_priority_mapping is cut off.
MaxPops == 40

-----------------------------------------------------------------------------
(* Generic helpers on finite maps and sequences *)

EmptyMap == << >>

Put(f, k, v) == [x \in (DOMAIN f) \cup {k} |-> IF x = k THEN v ELSE f[x]]

Del(f, k) == [x \in (DOMAIN f) \ {k} |-> f[x]]

Range(s) == {s[i] : i \in DOMAIN s}

\* All the orders in which a dict or a set holding S can be iterated.
RECURSIVE Orders(_)
Orders(S) ==
    IF S = {} THEN {<< >>}
    ELSE UNION {{<<x>> \o t : t \in Orders(S \ {x})} : x \in S}

\* sorted(s, key): the stable ascending sort of s, k[i] being the key of s[i].
StableSort(s, k) ==
    LET pos(i) == 1 + Cardinality({j \in DOMAIN s :
                                      k[j] < k[i] \/ (k[j] = k[i] /\ j < i)})
    IN  [n \in DOMAIN s |-> s[CHOOSE i \in DOMAIN s : pos(i) = n]]

SelectIn(s, S) == SelectSeq(s, LAMBDA x : x \in S)

RECURSIVE Reverse(_)
Reverse(s) == IF s = << >> THEN << >> ELSE Append(Reverse(Tail(s)), Head(s))

RECURSIVE Flatten(_)
Flatten(ss) == IF ss = << >> THEN << >> ELSE Head(ss) \o Flatten(Tail(ss))

-----------------------------------------------------------------------------
(* Versions, requirements, definitions *)

UNKNOWN_VALUE == -2

None == -1

ROOT == [name |-> "root", variant |-> "", version |-> 0]

NoId == [name |-> "", variant |-> "", version |-> 0]

Clause(op, v) == [op |-> op, v |-> v]

Requirement(name, specifier, extras) ==
    [name |-> name, specifier |-> specifier, extras |-> extras]

NoRequirement == Requirement("", {}, {})

\* packaging's Specifier.contains for one clause. The unknown version is not
\* a version packaging can compare: it is in no clause.
ClauseContains(c, version) ==
    /\ version # UNKNOWN_VALUE
    /\ CASE c.op = "==" -> version = c.v
         [] c.op = "!=" -> version # c.v
         [] c.op = ">=" -> version >= c.v
         [] c.op = "<=" -> version <= c.v
         [] c.op = ">"  -> version > c.v
         [] c.op = "<"  -> version < c.v

\* "version in requirement.specifier": every clause of the set holds.
SpecifierContains(specifier, version) ==
    \A c \in specifier : ClauseContains(c, version)

\* A definition of the registry, and a variant of it.
Package(identifier, version, requirement, variants) ==
    [identifier |-> identifier, version |-> version,
     requirement |-> requirement, variants |-> variants]

Variant(identifier, requirement) ==
    [identifier |-> identifier, requirement |-> requirement]

\* The definition a node holds: a package with one variant (or none) chosen.
Definition(identifier, version, variant, requirement) ==
    [identifier |-> identifier, version |-> version, variant |-> variant,
     requirement |-> requirement]

Raise(type) == [err |-> type, value |-> << >>]

Return(value) == [err |-> "", value |-> value]

WizErrors == {"GraphResolutionError", "RequestNotFound", "IncorrectDefinition"}

-----------------------------------------------------------------------------
(* The registries and request lists the model is run on *)

Plain(name) == Requirement(name, {}, {})

Eq(name, v) == Requirement(name, {Clause("==", v)}, {})

\* A-1 requires C>=1,<2; D-1 requires C<1.5; C-1.0, C-1.4, C-1.9.
RegistryIntersection ==
    { Package("A", 10, <<Requirement("C", {Clause(">=", 10), Clause("<", 20)}, {})>>, << >>),
      Package("D", 10, <<Requirement("C", {Clause("<", 15)}, {})>>, << >>),
      Package("C", 10, << >>, << >>),
      Package("C", 14, << >>, << >>),
      Package("C", 19, << >>, << >>) }

\* A requires C==1; B requires C==2; C-1, C-2; both variants of D require C==1.
RegistryUnresolvable ==
    { Package("A", 10, <<Eq("C", 10)>>, << >>),
      Package("B", 10, <<Eq("C", 20)>>, << >>),
      Package("D", 10, << >>, <<Variant("V1", <<Eq("C", 10)>>),
                                 Variant("V2", <<Eq("C", 10)>>)>>),
      Package("C", 10, << >>, << >>),
      Package("C", 20, << >>, << >>) }

\* A with variants [V1 requires X==1, V2 requires X==2]; X-1, X-2; Y requires X==2.
RegistryVariants ==
    { Package("A", 10, << >>, <<Variant("V1", <<Eq("X", 10)>>),
                                 Variant("V2", <<Eq("X", 20)>>)>>),
      Package("X", 10, << >>, << >>),
      Package("X", 20, << >>, << >>),
      Package("Y", 10, <<Eq("X", 20)>>, << >>) }

\* P requires A; A and B both have variants [V1, V2]; A[V1] requires X==1 and
\* B[V1] requires X==2.
RegistryTwoGroups ==
    { Package("P", 10, <<Plain("A")>>, << >>),
      Package("A", 10, << >>, <<Variant("V1", <<Eq("X", 10)>>), Variant("V2", << >>)>>),
      Package("B", 10, << >>, <<Variant("V1", <<Eq("X", 20)>>), Variant("V2", << >>)>>),
      Package("X", 10, << >>, << >>),
      Package("X", 20, << >>, << >>) }

\* P requires A (A-2, no variant); Q requires A<2 (A-1, variants V1, V2).
RegistryRedivision ==
    { Package("P", 10, <<Plain("A")>>, << >>),
      Package("Q", 10, <<Requirement("A", {Clause("<", 20)}, {})>>, << >>),
      Package("A", 20, << >>, << >>),
      Package("A", 10, << >>, <<Variant("V1", << >>), Variant("V2", << >>)>>) }

\* A with variants [V1, V2 requires Z]; Z requires W; W.
RegistryOrphans ==
    { Package("A", 10, << >>, <<Variant("V1", << >>), Variant("V2", <<Plain("Z")>>)>>),
      Package("Z", 10, <<Plain("W")>>, << >>),
      Package("W", 10, << >>, << >>) }

\* Z with variants [V1 requires C==2, V2]; P requires Q, W and C; Q requires
\* C==1; C-1, C-2, C-3: no version of C is left by C, C==1 and C==2 together.
RegistryNotFound ==
    { Package("Z", 10, << >>, <<Variant("V1", <<Eq("C", 20)>>), Variant("V2", << >>)>>),
      Package("P", 10, <<Plain("Q"), Plain("W"), Plain("C")>>, << >>),
      Package("Q", 10, <<Eq("C", 10)>>, << >>),
      Package("W", 10, << >>, << >>),
      Package("C", 10, << >>, << >>),
      Package("C", 20, << >>, << >>),
      Package("C", 30, << >>, << >>) }

\* P requires C==2 and A (A-2, no variant); Q requires C==1 and A<2 (A-1,
\* variants V1, V2); C-1, C-2: no graph can be resolved.
RegistryRedividedInVain ==
    { Package("P", 10, <<Eq("C", 20), Plain("A")>>, << >>),
      Package("Q", 10, <<Eq("C", 10), Requirement("A", {Clause("<", 20)}, {})>>, << >>),
      Package("A", 20, << >>, << >>),
      Package("A", 10, << >>, <<Variant("V1", << >>), Variant("V2", << >>)>>),
      Package("C", 10, << >>, << >>),
      Package("C", 20, << >>, << >>) }

\* A with variants [V1, V2]; P requires A[V2].
RegistryExtras ==
    { Package("A", 10, << >>, <<Variant("V1", << >>), Variant("V2", << >>)>>),
      Package("P", 10, <<Requirement("A", {}, {"V2"})>>, << >>) }

\* A requires B and B requires A.
RegistryCycle ==
    { Package("A", 10, <<Plain("B")>>, << >>),
      Package("B", 10, <<Plain("A")>>, << >>) }

\* Q requires A<2 and B; B requires A[V1]<2; A-2; A-1 with variants V1, V2:
\* A[V1] is required by two parents with different extras.
RegistryTwoExtras ==
    { Package("Q", 10, <<Requirement("A", {Clause("<", 20)}, {}), Plain("B")>>, << >>),
      Package("B", 10, <<Requirement("A", {Clause("<", 20)}, {"V1"})>>, << >>),
      Package("A", 20, << >>, << >>),
      Package("A", 10, << >>, <<Variant("V1", << >>), Variant("V2", << >>)>>) }

Registries ==
    << RegistryIntersection, RegistryUnresolvable, RegistryVariants,
       RegistryTwoGroups, RegistryRedivision, RegistryOrphans, RegistryNotFound,
       RegistryRedividedInVain, RegistryExtras, RegistryCycle,
       RegistryTwoExtras >>

\* The requirements a request list is drawn from, per registry.
Menus ==
    << {Plain("A"), Plain("D"), Plain("C")},
       {Plain("A"), Plain("B"), Plain("D")},
       {Plain("A"), Plain("Y"), Plain("X")},
       {Plain("P"), Plain("B"), Plain("X")},
       {Plain("P"), Plain("Q"), Requirement("A", {Clause("<", 20)}, {})},
       {Plain("A"), Plain("Z")},
       {Plain("Z"), Plain("P")},
       {Plain("P"), Plain("Q")},
       {Plain("A"), Plain("P")},
       {Plain("A"), Plain("B")},
       {Plain("Q"), Plain("A")} >>

RequestLists(i) ==
    UNION {[1..n -> Menus[i]] : n \in 1..MaxRequests}

\* Resolver.definition_mapping of the run.
definition_mapping == Registries[reg]

-----------------------------------------------------------------------------
(* wiz.definition: the registry query *)

\* Line 182 with the length test off by one: len(versions) > 2.
mixed_above_two(versions) ==
    UNKNOWN_VALUE \in Range(versions) /\ Len(versions) > 2

\* Line 182: versions holds the unknown version and another one.
mixed(versions) ==
    UNKNOWN_VALUE \in Range(versions) /\ Len(versions) > 1

\* Lines 190-194 going through the versions from the lowest one on.
best_matching_from_lowest(requirement, candidates) ==
    LET matching == {d \in candidates :
                        SpecifierContains(requirement.specifier, d.version)}
    IN  IF matching = {} THEN Raise("RequestNotFound")
        ELSE Return(CHOOSE d \in matching :
                        \A e \in matching : d.version <= e.version)

\* Lines 190-197: the versions are gone through from the highest one on and
\* the first one in the specifier gives the definition returned.
best_matching(requirement, candidates) ==
    LET matching == {d \in candidates :
                        SpecifierContains(requirement.specifier, d.version)}
    IN  IF matching = {} THEN Raise("RequestNotFound")
        ELSE Return(CHOOSE d \in matching :
                        \A e \in matching : e.version <= d.version)

\* query returning the highest version registered when none is in the specifier.
query_or_highest(requirement, mapping) ==
    LET candidates == {d \in mapping : d.identifier = requirement.name}
        found == best_matching(requirement, candidates)
    IN  IF candidates = {} THEN Raise("RequestNotFound")
        ELSE IF found.err = "" THEN found
        ELSE Return(CHOOSE d \in candidates :
                        \A e \in candidates : e.version <= d.version)

\* query(requirement, definition_mapping): the highest version under
\* requirement.name that the specifier contains. versions is the list of
\* line 177, one version per definition registered under the name.
query(requirement, mapping) ==
    LET candidates == {d \in mapping : d.identifier = requirement.name}
        versions == CHOOSE o \in Orders({d.version : d \in candidates}) :
                        \A i, j \in DOMAIN o : i < j => o[i] > o[j]
    IN  IF candidates = {} THEN Raise("RequestNotFound")
        ELSE IF mixed(versions) THEN Raise("RequestNotFound")
        ELSE best_matching(requirement, candidates)

\* A package with the variant of index i selected: the variant's requirements
\* follow the package's own.
WithVariant(package, i) ==
    Definition(package.identifier, package.version,
               package.variants[i].identifier,
               package.requirement \o package.variants[i].requirement)

\* get(requirement, definition_mapping): the best matching definition, as one
\* definition per variant in declared order, or the one variant the extras
\* of the requirement name.
get(requirement, mapping) ==
    LET Select(found) ==
            LET package == found.value
                asked == {i \in 1..Len(package.variants) :
                             package.variants[i].identifier \in requirement.extras}
            IN  IF found.err # "" THEN found
                ELSE IF Len(package.variants) = 0
                     THEN Return(<<Definition(package.identifier, package.version,
                                              "", package.requirement)>>)
                ELSE IF requirement.extras = {}
                     THEN Return([i \in 1..Len(package.variants) |->
                                     WithVariant(package, i)])
                ELSE IF asked = {} THEN Raise("RequestNotFound")
                ELSE Return(<<WithVariant(package,
                                  CHOOSE i \in asked : \A j \in asked : i <= j)>>)
    IN  Select(query(requirement, mapping))

\* _Node.generate_identifier: "name[variant]==version".
generate_identifier(definition) ==
    [name |-> definition.identifier, variant |-> definition.variant,
     version |-> definition.version]

\* Order of the identifier strings. Names are single capital letters (and
\* "root", which sorts after them); after the name, "=" sorts before "[".
Letters == <<"A", "B", "C", "D", "P", "Q", "W", "X", "Y", "Z", "root">>

NameRank(name) == CHOOSE i \in 1..Len(Letters) : Letters[i] = name

VariantRank(variant) ==
    CASE variant = "" -> 0 [] variant = "V1" -> 1 [] variant = "V2" -> 2

IdLess(a, b) ==
    \/ NameRank(a.name) < NameRank(b.name)
    \/ /\ a.name = b.name
       /\ \/ VariantRank(a.variant) < VariantRank(b.variant)
          \/ a.variant = b.variant /\ a.version < b.version

-----------------------------------------------------------------------------
(* Graph: a record of references into the heap *)

\* Graph.__init__ with no initial mapping.
Graph ==
    [node_mapping |-> EmptyMap, definition_mapping |-> EmptyMap,
     variant_mapping |-> {}, link_mapping |-> EmptyMap]

\* nodes: the _Node objects; sets: the sets of _definition_mapping;
\* dicts: the inner dictionaries of _link_mapping.
EmptyHeap == [nodes |-> << >>, sets |-> << >>, dicts |-> << >>]

\* A graph g being operated on over the heap h, and the exception raised.
Context(g, h) == [g |-> g, h |-> h, err |-> ""]

Failed(C, type) == [C EXCEPT !.err = type]

\* Graph.copy: the four dictionaries are copied, the objects they hold are not.
copy(g) ==
    [node_mapping |-> g.node_mapping, definition_mapping |-> g.definition_mapping,
     variant_mapping |-> g.variant_mapping, link_mapping |-> g.link_mapping]

node_identifiers(g) == DOMAIN g.node_mapping

node_exists(g, identifier) == identifier \in DOMAIN g.node_mapping

\* Graph.node, for an identifier of the node mapping.
node(g, h, identifier) == h.nodes[g.node_mapping[identifier]]

node_identifiers_from_definition(g, h, definition_identifier) ==
    {id \in h.sets[g.definition_mapping[definition_identifier]] : node_exists(g, id)}

\* Graph.variant_groups: the values of the variant mapping. The key of a group
\* is the digest of its identifiers, so a group is stored once.
variant_groups(g) == g.variant_mapping

outcoming(g, h, identifier) ==
    IF identifier \in DOMAIN g.link_mapping
    THEN {id \in DOMAIN h.dicts[g.link_mapping[identifier]] : node_exists(g, id)}
    ELSE {}

\* Whether _link_mapping[parent_identifier][identifier] exists.
link_exists(g, h, identifier, parent_identifier) ==
    /\ parent_identifier \in DOMAIN g.link_mapping
    /\ identifier \in DOMAIN h.dicts[g.link_mapping[parent_identifier]]

link_weight(g, h, identifier, parent_identifier) ==
    h.dicts[g.link_mapping[parent_identifier]][identifier].weight

link_requirement(g, h, identifier, parent_identifier) ==
    h.dicts[g.link_mapping[parent_identifier]][identifier].requirement

\* Graph.conflicts, as a set: the live members of every set of the definition
\* mapping that holds more than one identifier.
conflicts(g, h) ==
    UNION { {id \in h.sets[g.definition_mapping[d]] : node_exists(g, id)} :
            d \in {e \in DOMAIN g.definition_mapping :
                      Cardinality(h.sets[g.definition_mapping[e]]) > 1} }

\* Graph.conflicts with the test of line 625 off by one: len(_identifiers) > 2.
conflict_lists_above_two(g, h) ==
    LET names == {e \in DOMAIN g.definition_mapping :
                     Cardinality(h.sets[g.definition_mapping[e]]) > 2}
        live(d) == {id \in h.sets[g.definition_mapping[d]] : id \in DOMAIN g.node_mapping}
        inner == {f \in [names -> UNION {Orders(live(d)) : d \in names}] :
                     \A d \in names : f[d] \in Orders(live(d))}
    IN  {Flatten([i \in 1..Cardinality(names) |-> f[o[i]]]) :
            o \in Orders(names), f \in inner}

\* Graph.conflicts, as the lists it can return: definition by definition.
conflict_lists(g, h) ==
    LET names == {e \in DOMAIN g.definition_mapping :
                     Cardinality(h.sets[g.definition_mapping[e]]) > 1}
        live(d) == {id \in h.sets[g.definition_mapping[d]] : node_exists(g, id)}
        inner == {f \in [names -> UNION {Orders(live(d)) : d \in names}] :
                     \A d \in names : f[d] \in Orders(live(d))}
    IN  {Flatten([i \in 1..Cardinality(names) |-> f[o[i]]]) :
            o \in Orders(names), f \in inner}

\* Graph.remove_node deleting the links that leave the node as well.
remove_node_with_links(C, identifier) ==
    IF C.err # "" THEN C
    ELSE IF identifier \notin DOMAIN C.g.node_mapping THEN Failed(C, "KeyError")
    ELSE [C EXCEPT !.g.node_mapping = Del(@, identifier),
                   !.g.link_mapping = Del(@, identifier)]

\* Graph.remove_node: del self._node_mapping[identifier].
remove_node(C, identifier) ==
    IF C.err # "" THEN C
    ELSE IF ~node_exists(C.g, identifier) THEN Failed(C, "KeyError")
    ELSE [C EXCEPT !.g.node_mapping = Del(@, identifier)]

RECURSIVE remove_nodes(_, _)
remove_nodes(C, ids) ==
    IF ids = {} THEN C
    ELSE LET id == CHOOSE x \in ids : TRUE
         IN  remove_nodes(remove_node(C, id), ids \ {id})

reset_variant_groups(g) == [g EXCEPT !.variant_mapping = {}]

\* Graph._create_link without the test of line 746: the link is set again.
create_link_replacing(C, identifier, parent_identifier, requirement, weight) ==
    LET C1 == IF parent_identifier \in DOMAIN C.g.link_mapping THEN C
              ELSE [C EXCEPT !.h.dicts = Append(@, EmptyMap),
                             !.g.link_mapping =
                                 Put(@, parent_identifier, Len(C.h.dicts) + 1)]
        ref == C1.g.link_mapping[parent_identifier]
    IN  [C1 EXCEPT !.h.dicts[ref] =
            Put(@, identifier, [requirement |-> requirement, weight |-> weight])]

\* Graph._create_link.
create_link(C, identifier, parent_identifier, requirement, weight) ==
    LET C1 == IF parent_identifier \in DOMAIN C.g.link_mapping THEN C
              ELSE [C EXCEPT !.h.dicts = Append(@, EmptyMap),
                             !.g.link_mapping =
                                 Put(@, parent_identifier, Len(C.h.dicts) + 1)]
        ref == C1.g.link_mapping[parent_identifier]
    IN  IF identifier \in DOMAIN C1.h.dicts[ref]
        THEN Failed(C1, "IncorrectDefinition")
        ELSE [C1 EXCEPT !.h.dicts[ref] =
                 Put(@, identifier, [requirement |-> requirement, weight |-> weight])]

\* Lines 690: a new _Node for the definition, registered in the node mapping.
create_node(C, identifier, definition) ==
    [C EXCEPT !.h.nodes = Append(@, [definition |-> definition,
                                     parent_identifiers |-> {}]),
              !.g.node_mapping = Put(@, identifier, Len(C.h.nodes) + 1)]

\* Lines 698-706: the node is recorded under its definition and gets the parent.
record_node(C, identifier, definition, parent_identifier) ==
    LET C1 == IF definition.identifier \in DOMAIN C.g.definition_mapping THEN C
              ELSE [C EXCEPT !.h.sets = Append(@, {}),
                             !.g.definition_mapping =
                                 Put(@, definition.identifier, Len(C.h.sets) + 1)]
        set == C1.g.definition_mapping[definition.identifier]
        obj == C1.g.node_mapping[identifier]
    IN  [C1 EXCEPT !.h.sets[set] = @ \cup {identifier},
                   !.h.nodes[obj].parent_identifiers = @ \cup {parent_identifier}]

RECURSIVE update_from_requirements(_, _, _, _)
RECURSIVE update_from_requirement(_, _, _, _)
RECURSIVE update_from_definitions(_, _, _, _, _, _)

\* Graph.update_from_requirements without line 655: the weight stays 1.
update_from_requirements_same_weight(C, requirements, parent_identifier, weight) ==
    IF C.err # "" \/ weight > Len(requirements) THEN C
    ELSE update_from_requirements(
             update_from_requirement(C, requirements[weight], parent_identifier, 1),
             requirements, parent_identifier, weight + 1)

\* Graph.update_from_requirements, from the requirement of index (and weight)
\* weight on.
update_from_requirements(C, requirements, parent_identifier, weight) ==
    IF C.err # "" \/ weight > Len(requirements) THEN C
    ELSE update_from_requirements(
             update_from_requirement(C, requirements[weight], parent_identifier, weight),
             requirements, parent_identifier, weight + 1)

\* Graph.update_from_requirement.
update_from_requirement(C, requirement, parent_identifier, weight) ==
    LET Update(found) ==
            IF found.err # "" THEN Failed(C, found.err)
            ELSE update_from_definitions(
                     IF Len(found.value) > 1
                     THEN [C EXCEPT !.g.variant_mapping = @ \cup
                              {[i \in 1..Len(found.value) |->
                                   generate_identifier(found.value[i])]}]
                     ELSE C,
                     found.value, 1, requirement, parent_identifier, weight)
    IN  Update(get(requirement, definition_mapping))

\* The loop of lines 687-714, from the definition of index i on.
update_from_definitions(C, definitions, i, requirement, parent_identifier, weight) ==
    IF C.err # "" \/ i > Len(definitions) THEN C
    ELSE LET definition == definitions[i]
             identifier == generate_identifier(definition)
             Link(C1) ==
                 IF C1.err # "" THEN C1
                 ELSE create_link(
                          record_node(C1, identifier, definition, parent_identifier),
                          identifier, parent_identifier, requirement, weight)
         IN  update_from_definitions(
                 Link(IF node_exists(C.g, identifier) THEN C
                      ELSE update_from_requirements(
                               create_node(C, identifier, definition),
                               definition.requirement, identifier, 1)),
                 definitions, i + 1, requirement, parent_identifier, weight)

-----------------------------------------------------------------------------
(* compute_priority_mapping *)

\* _PriorityQueue.pop_smallest: the identifier of the smallest
\* (priority, identifier) pair of the queue.
pop_smallest(queue) ==
    CHOOSE id \in DOMAIN queue :
        \A o \in (DOMAIN queue) \ {id} :
            \/ queue[id] < queue[o]
            \/ queue[id] = queue[o] /\ IdLess(id, o)

\* The update of lines 489-494 keeping the smaller priority.
replaces_when_smaller(last_priority, priority) ==
    last_priority = None \/ priority < last_priority

\* The update of lines 489-494 keeping the first priority found for a child.
replaces_first_only(last_priority, priority) ==
    last_priority = None

\* Lines 489-494: whether the priority found for a child replaces the recorded one.
replaces(last_priority, priority) ==
    last_priority = None \/ last_priority < priority

RECURSIVE priority_loop(_, _, _, _, _)
\* The loop of lines 479-496. An entry of the mapping is <<priority, parent>>.
priority_loop(g, h, priority_mapping, queue, pops) ==
    IF DOMAIN queue = {} THEN [diverged |-> FALSE, mapping |-> priority_mapping]
    ELSE IF pops >= MaxPops THEN [diverged |-> TRUE, mapping |-> priority_mapping]
    ELSE LET identifier == pop_smallest(queue)
             current_priority == priority_mapping[identifier][1]
             priority(child) == current_priority + link_weight(g, h, child, identifier)
             updated == {child \in outcoming(g, h, identifier) :
                            replaces(priority_mapping[child][1], priority(child))}
         IN  priority_loop(g, h,
                 [id \in DOMAIN priority_mapping |->
                     IF id \in updated THEN <<priority(id), identifier>>
                     ELSE priority_mapping[id]],
                 [id \in ((DOMAIN queue) \ {identifier}) \cup updated |->
                     IF id \in updated THEN priority(id) ELSE queue[id]],
                 pops + 1)

\* compute_priority_mapping with the entries of lines 469-472 set to (0, None).
compute_priority_mapping_from_zero(g, h) ==
    priority_loop(g, h,
        [id \in node_identifiers(g) \cup {ROOT} |->
            IF id = ROOT THEN <<0, ROOT>> ELSE <<0, NoId>>],
        [id \in {ROOT} |-> 0], 0)

\* compute_priority_mapping: every node starts with (None, None) and root
\* with (0, root); the loop starts with root alone in the queue.
compute_priority_mapping(g, h) ==
    priority_loop(g, h,
        [id \in node_identifiers(g) \cup {ROOT} |->
            IF id = ROOT THEN <<0, ROOT>> ELSE <<None, NoId>>],
        [id \in {ROOT} |-> 0], 0)

-----------------------------------------------------------------------------
(* Resolver *)

\* One graph of the list divide builds, with the index chosen in each group.
Alternative(g, combination, err) == [g |-> g, combination |-> combination, err |-> err]

\* Lines 126-136 removing only the members of the group that follow index j.
isolate_from_following(alternative, variant_group, j) ==
    Alternative(
        [alternative.g EXCEPT !.node_mapping =
            [id \in (DOMAIN @) \ {variant_group[n] : n \in (j + 1)..Len(variant_group)}
                |-> @[id]]],
        Append(alternative.combination, j), alternative.err)

\* Lines 126-136: a copy of the graph with only the member of index j of the
\* variant group left.
isolate(alternative, variant_group, j) ==
    LET others == {variant_group[n] : n \in (DOMAIN variant_group) \ {j}}
        Isolated(C) ==
            Alternative(C.g, Append(alternative.combination, j),
                        IF alternative.err # "" THEN alternative.err ELSE C.err)
    IN  Isolated(remove_nodes(Context(copy(alternative.g), EmptyHeap),
                              {id \in others : id # variant_group[j]}))

\* Lines 118-139 without the outer loop: only the first group is divided.
divide_groups_first_group(graph_list, sorted_variant_groups, n) ==
    Flatten([i \in 1..Len(graph_list) |->
        [j \in 1..Len(sorted_variant_groups[1]) |->
            isolate(graph_list[i], sorted_variant_groups[1], j)]])

RECURSIVE divide_groups(_, _, _)
\* Lines 118-139, from the group of index n on.
divide_groups(graph_list, sorted_variant_groups, n) ==
    IF n > Len(sorted_variant_groups) THEN graph_list
    ELSE divide_groups(
             Flatten([i \in 1..Len(graph_list) |->
                 [j \in 1..Len(sorted_variant_groups[n]) |->
                     isolate(graph_list[i], sorted_variant_groups[n], j)]]),
             sorted_variant_groups, n + 1)

\* Lines 112-114: the groups ordered by the priority of their first identifier.
sort_variant_groups(values, priority_mapping) ==
    StableSort(values, [i \in DOMAIN values |-> priority_mapping[values[i][1]][1]])

\* Line 142 without reversed(): the graphs appended in the order built.
push_order_as_built(graph_list) == graph_list

\* The order in which the graphs built are appended to the stack (line 142).
push_order(graph_list) == Reverse(graph_list)

\* Resolver.divide, values being the groups as the variant mapping lists them.
\* number is the value returned; pushed are the graphs in the order they are
\* appended to the stack.
divide(g, priority_mapping, values) ==
    LET Append_all(sorted, pushed) ==
            IF \E i \in DOMAIN pushed : pushed[i].err # ""
            THEN [err |-> "KeyError", number |-> 0, pushed |-> << >>,
                  groups |-> sorted]
            ELSE [err |-> "", number |-> Len(pushed),
                  pushed |-> [i \in DOMAIN pushed |->
                                [pushed[i] EXCEPT !.g = reset_variant_groups(@)]],
                  groups |-> sorted]
        Divide(sorted) ==
            Append_all(sorted,
                push_order(divide_groups(<<Alternative(copy(g), << >>, "")>>,
                                         sorted, 1)))
    IN  IF Len(values) = 0
        THEN [err |-> "", number |-> 0, pushed |-> << >>, groups |-> << >>]
        ELSE IF \E i \in DOMAIN values : values[i][1] \notin DOMAIN priority_mapping
        THEN [err |-> "KeyError", number |-> 0, pushed |-> << >>, groups |-> << >>]
        ELSE Divide(sort_variant_groups(values, priority_mapping))

\* Resolver._remove_unreachable_nodes removing nothing.
remove_unreachable_nodes_none(g, priority_mapping) == g

\* Resolver._remove_unreachable_nodes.
remove_unreachable_nodes(g, priority_mapping) ==
    [g EXCEPT !.node_mapping =
        [id \in {n \in DOMAIN g.node_mapping : priority_mapping[n][1] # None} |->
            g.node_mapping[id]]]

\* Resolver.conflicted_identifiers, as a set, for a node of the graph.
conflicted_identifiers(g, h, identifier) ==
    node_identifiers_from_definition(
        g, h, node(g, h, identifier).definition.identifier) \ {identifier}

\* Resolver.identifiers_from_requirement.
identifiers_from_requirement(requirement) ==
    LET Identifiers(found) ==
            IF found.err # "" THEN found
            ELSE Return({generate_identifier(found.value[i]) :
                            i \in DOMAIN found.value})
    IN  Identifiers(get(requirement, definition_mapping))

\* Resolver.compute_requirement_mapping. The keys of the mapping are
\* Requirement objects, one per link, so the mapping is given by parent.
compute_requirement_mapping(g, h, identifier) ==
    LET incoming_identifiers ==
            {id \in node(g, h, identifier).parent_identifiers :
                node_exists(g, id) \/ id = ROOT}
    IN  IF \E id \in incoming_identifiers : ~link_exists(g, h, identifier, id)
        THEN Raise("KeyError")
        ELSE Return([id \in incoming_identifiers |->
                        link_requirement(g, h, identifier, id)])

\* The diagnostic of the GraphResolutionError of validate_node_requirements.
Diagnostic(definition, requirement1, requirement2, parent1, parent2) ==
    [definition |-> definition, requirement1 |-> requirement1,
     requirement2 |-> requirement2, parent1 |-> parent1, parent2 |-> parent2]

NoDiagnostic == Diagnostic("", NoRequirement, NoRequirement, NoId, NoId)

Outcome(err, message) == [err |-> err, message |-> message]

\* Lines 311-323 with each version tested against the requirement of its own node.
requirements_conflict_own_version(version1, version2, requirement1, requirement2) ==
    \/ /\ ~SpecifierContains(requirement1.specifier, version1)
       /\ ~SpecifierContains(requirement2.specifier, version2)
    \/ requirement1.extras # requirement2.extras

\* Lines 311-323: whether two requirements are in conflict for the two nodes.
requirements_conflict(version1, version2, requirement1, requirement2) ==
    \/ /\ ~SpecifierContains(requirement2.specifier, version1)
       /\ ~SpecifierContains(requirement1.specifier, version2)
    \/ requirement1.extras # requirement2.extras

\* Lines 308-337 for one node2: keys is mapping1.keys() + mapping2.keys(), each
\* key given as [side, parent, requirement]. The pairs are taken in the order of
\* itertools.combinations and the first one in conflict raises.
validate_pairs(definition, version1, version2, keys) ==
    LET pairs == {p \in (DOMAIN keys) \X (DOMAIN keys) :
                     /\ p[1] < p[2]
                     /\ requirements_conflict(version1, version2,
                            keys[p[1]].requirement, keys[p[2]].requirement)}
        first == CHOOSE p \in pairs :
                     \A q \in pairs : p[1] < q[1] \/ (p[1] = q[1] /\ p[2] <= q[2])
    IN  IF pairs = {} THEN Outcome("", NoDiagnostic)
        ELSE IF keys[first[1]].side # 1 \/ keys[first[2]].side # 2
             THEN Outcome("KeyError", NoDiagnostic)
        ELSE Outcome("GraphResolutionError",
                     Diagnostic(definition,
                                keys[first[1]].requirement, keys[first[2]].requirement,
                                keys[first[1]].parent, keys[first[2]].parent))

\* The keys of a requirement mapping in the order given by parents.
mapping_keys(mapping, parents, side) ==
    [i \in DOMAIN parents |->
        [side |-> side, parent |-> parents[i], requirement |-> mapping[parents[i]]]]

RECURSIVE validate_from(_, _, _, _, _, _)
\* The loop of lines 304-345 from the node of index n of identifiers2 on, keys1
\* being mapping1.keys(): the outcomes over every order of mapping2.keys().
validate_from(g, h, identifier, keys1, identifiers2, n) ==
    IF n > Len(identifiers2) THEN {Outcome("", NoDiagnostic)}
    ELSE LET node1 == node(g, h, identifier)
             node2 == node(g, h, identifiers2[n])
             mapping2 == compute_requirement_mapping(g, h, identifiers2[n])
         IN  IF mapping2.err # "" THEN {Outcome(mapping2.err, NoDiagnostic)}
             ELSE UNION {
                 LET o == validate_pairs(node1.definition.identifier,
                              node1.definition.version, node2.definition.version,
                              keys1 \o mapping_keys(mapping2.value, parents2, 2))
                 IN  IF o.err # "" THEN {o}
                     ELSE validate_from(g, h, identifier, keys1, identifiers2, n + 1)
                 : parents2 \in Orders(DOMAIN mapping2.value)}

\* Resolver.validate_node_requirements: the outcomes over every order of the
\* keys of the requirement mappings.
validate_node_requirements(g, h, identifier, identifiers2) ==
    LET mapping1 == compute_requirement_mapping(g, h, identifier)
    IN  IF mapping1.err # "" THEN {Outcome(mapping1.err, NoDiagnostic)}
        ELSE UNION {validate_from(g, h, identifier,
                        mapping_keys(mapping1.value, parents1, 1), identifiers2, 1)
                    : parents1 \in Orders(DOMAIN mapping1.value)}

\* Line 381 with = for &=: the specifier of the last requirement is kept.
intersect_replacing(requirement, other) ==
    [requirement EXCEPT !.specifier = other.specifier]

\* Line 381: requirement.specifier &= _requirement.specifier.
intersect(requirement, other) ==
    [requirement EXCEPT !.specifier = @ \cup other.specifier]

RECURSIVE combine_from(_, _, _, _, _, _)
\* The loop of lines 364-381 from the identifier of index n on.
combine_from(g, h, ids, priority_mapping, requirement, n) ==
    IF n > Len(ids) THEN Return(requirement)
    ELSE IF ~link_exists(g, h, ids[n], priority_mapping[ids[n]][2])
         THEN Raise("KeyError")
    ELSE LET r == link_requirement(g, h, ids[n], priority_mapping[ids[n]][2])
         IN  IF n = 1 THEN combine_from(g, h, ids, priority_mapping, r, n + 1)
             ELSE IF requirement.name # r.name THEN Raise("GraphResolutionError")
             ELSE combine_from(g, h, ids, priority_mapping,
                               intersect(requirement, r), n + 1)

\* Resolver.combined_requirement.
combined_requirement(g, h, ids, priority_mapping) ==
    combine_from(g, h, ids, priority_mapping, NoRequirement, 1)

\* The order of the entries with reverse=True left out of the sort of line 426.
EntryLess_without_reverse(a, b) ==
    \/ b[1] < a[1]
    \/ a[1] = b[1] /\ a[2] # b[2] /\ IdLess(b[2], a[2])

\* Order of two entries <<priority, parent>> of the priority mapping, as
\* Python 2 orders the tuples: None before every number.
EntryLess(a, b) ==
    \/ a[1] < b[1]
    \/ a[1] = b[1] /\ a[2] # b[2] /\ IdLess(a[2], b[2])

RECURSIVE descending(_, _)
\* sorted(ids, key=priority_mapping[id], reverse=True) over every order in which
\* the node mapping lists ids: the sort is stable, so these are the
\* arrangements of ids in which no entry is followed by a greater one.
descending(ids, priority_mapping) ==
    IF ids = {} THEN {<< >>}
    ELSE UNION {{<<x>> \o t : t \in descending(ids \ {x}, priority_mapping)} :
                x \in {y \in ids : \A z \in ids :
                          ~EntryLess(priority_mapping[y], priority_mapping[z])}}

\* Resolver.extract_ordered_definitions: the lists it can return.
extract_ordered_definitions(g, h, priority_mapping) ==
    {[i \in DOMAIN ids |-> node(g, h, ids[i]).definition] :
        ids \in descending(node_identifiers(g), priority_mapping)}

-----------------------------------------------------------------------------
(* compute_definitions as a state machine *)

Result(kind, definitions, err, message) ==
    [kind |-> kind, definitions |-> definitions, err |-> err, message |-> message]

NoResult == Result("none", << >>, "", NoDiagnostic)

Tag(n, combination) == [division |-> n, combination |-> combination]

NoDivision == [count |-> 0, groups |-> << >>, source |-> Graph, pushed |-> << >>]

Init ==
    /\ reg \in DOMAIN Registries
    /\ requests \in RequestLists(reg)
    /\ pc = "start"
    /\ heap = EmptyHeap
    /\ graph = Graph
    /\ identifiers = << >>
    /\ stack = << >>
    /\ result = NoResult
    /\ runs = 1
    /\ previous = NoResult
    /\ tags = << >>
    /\ division = NoDivision
    /\ attempts = << >>
    /\ caught = << >>

\* compute_definitions ends: it returns or an exception leaves it, graph
\* being the graph g.
Finish(r, g, h) ==
    /\ pc' = "done"
    /\ result' = r
    /\ heap' = h
    /\ graph' = g
    /\ identifiers' = << >>
    /\ stack' = << >>
    /\ tags' = << >>
    /\ UNCHANGED <<reg, requests, runs, previous, division, attempts, caught>>

\* compute_priority_mapping never returns.
Hang == Finish(Result("hang", << >>, "", NoDiagnostic), Graph, heap)

\* Lines 56-60: the graph is built from the requirements and put on the stack.
build_graph ==
    /\ pc = "start"
    /\ \E C \in {update_from_requirements(Context(Graph, heap), requests, ROOT, 1)} :
           IF C.err # ""
           THEN Finish(Result("raise", << >>, C.err, NoDiagnostic), C.g, C.h)
           ELSE /\ pc' = "loop"
                /\ heap' = C.h
                /\ stack' = <<C.g>>
                /\ tags' = <<Tag(0, << >>)>>
                /\ UNCHANGED <<reg, requests, graph, identifiers, result, runs,
                               previous, division, attempts, caught>>

\* The graphs of a division appended to a stack, and their tags.
Pushed(stk, d) == stk \o [i \in DOMAIN d.pushed |-> d.pushed[i].g]

PushedTags(tgs, d, n) ==
    tgs \o [i \in DOMAIN d.pushed |-> Tag(n, d.pushed[i].combination)]

Divided(g, d) ==
    [count |-> division.count + 1, groups |-> d.groups, source |-> g,
     pushed |-> [i \in DOMAIN d.pushed |-> d.pushed[i].g]]

Front(s) == SubSeq(s, 1, Len(s) - 1)

Last(s) == s[Len(s)]

\* Lines 62-69: a graph is popped and divided.
pop_and_divide ==
    /\ pc = "loop"
    /\ Len(stack) # 0
    /\ \E g \in {Last(stack)} :
       \E priority_mapping \in {compute_priority_mapping(g, heap)} :
           /\ ~priority_mapping.diverged
           /\ \E values \in Orders(variant_groups(g)) :
              \E d \in {divide(g, priority_mapping.mapping, values)} :
                    /\ d.err = ""
                    /\ d.number > 0
                    /\ stack' = Pushed(Front(stack), d)
                    /\ tags' = PushedTags(Front(tags), d, division.count + 1)
                    /\ division' = Divided(g, d)
                    /\ UNCHANGED <<reg, requests, pc, heap, graph, identifiers,
                                   result, runs, previous, attempts, caught>>

\* Lines 62-72 and 163-166: a graph is popped, is not divided, and
\* resolve_conflicts starts on it. With an empty stack the loop of line 62 is
\* left and compute_definitions returns no value.
pop_and_resolve ==
    /\ pc = "loop"
    /\ IF Len(stack) = 0
       THEN Finish(Result("absent", << >>, "", NoDiagnostic), Graph, heap)
       ELSE
       \E g \in {Last(stack)} :
       \E priority_mapping \in {compute_priority_mapping(g, heap)} :
           IF priority_mapping.diverged THEN Hang
           ELSE /\ variant_groups(g) = {}
                /\ \E ids \in conflict_lists(g, heap) :
                     /\ pc' = IF Len(ids) = 0 THEN "resolved" ELSE "resolve"
                     /\ identifiers' = ids
                     /\ graph' = g
                     /\ stack' = Front(stack)
                     /\ tags' = Front(tags)
                     /\ attempts' = Append(attempts, Last(tags))
                     /\ UNCHANGED <<reg, requests, heap, result, runs, previous,
                                    division, caught>>

\* Lines 74-78 without the test of line 76: every exception is caught and the
\* loop goes on.
Raised_and_caught(err, message, h, stk, tgs) ==
    /\ pc' = "loop"
    /\ heap' = h
    /\ graph' = Graph
    /\ identifiers' = << >>
    /\ stack' = stk
    /\ tags' = tgs
    /\ caught' = Append(caught, err)
    /\ UNCHANGED <<reg, requests, result, runs, previous, attempts>>

\* Lines 74-78: an exception leaves resolve_conflicts with the heap h and the
\* stack stk (tags tgs).
Raised(err, message, h, stk, tgs) ==
    IF err \in WizErrors /\ Len(stk) # 0
    THEN /\ pc' = "loop"
         /\ heap' = h
         /\ graph' = Graph
         /\ identifiers' = << >>
         /\ stack' = stk
         /\ tags' = tgs
         /\ caught' = Append(caught, err)
         /\ UNCHANGED <<reg, requests, result, runs, previous, attempts>>
    ELSE /\ pc' = "done"
         /\ result' = Result("raise", << >>, err, message)
         /\ heap' = h
         /\ graph' = Graph
         /\ identifiers' = << >>
         /\ stack' = stk
         /\ tags' = tgs
         /\ UNCHANGED <<reg, requests, runs, previous, attempts, caught>>

\* The loop of resolve_conflicts going on with the update of line 229 made
\* at every iteration: the conflicts of the graph are put in the list again.
Continue_with_conflicts(g, h, ids) ==
    /\ pc' = "resolve"
    /\ graph' = g
    /\ heap' = h
    /\ identifiers' \in Orders(Range(ids) \cup conflicts(g, h))
    /\ UNCHANGED <<reg, requests, stack, result, runs, previous, tags, division,
                   attempts, caught>>

\* The loop of resolve_conflicts goes on with the graph g and the list ids.
Continue(g, h, ids) ==
    /\ pc' = "resolve"
    /\ graph' = g
    /\ heap' = h
    /\ identifiers' = ids
    /\ UNCHANGED <<reg, requests, stack, result, runs, previous, tags, division,
                   attempts, caught>>

\* Lines 222-237: the requirement is added to the graph, the conflict list is
\* updated and the graph is divided if it must be.
add_requirement(g, identifier, requirement, rest) ==
    \E C \in {update_from_requirement(Context(g, heap), requirement, ROOT, 1)} :
        IF C.err # ""
        THEN Raised(C.err, NoDiagnostic, C.h, stack, tags) /\ UNCHANGED division
        ELSE
        \E priority_mapping \in {compute_priority_mapping(C.g, C.h)} :
        IF priority_mapping.diverged THEN Hang
        ELSE \E ids \in Orders(Range(rest) \cup conflicts(C.g, C.h)) :
             \E values \in Orders(variant_groups(C.g)) :
             \E d \in {divide(C.g, priority_mapping.mapping, values)} :
                    IF d.err # ""
                    THEN Raised(d.err, NoDiagnostic, C.h, stack, tags)
                         /\ UNCHANGED division
                    ELSE IF d.number > 0
                    THEN /\ Raised("GraphResolutionError", NoDiagnostic, C.h,
                                   Pushed(stack, d),
                                   PushedTags(tags, d, division.count + 1))
                         /\ division' = Divided(C.g, d)
                    ELSE Continue(C.g, C.h, ids)

\* Lines 193-220: the node picked is checked against the nodes of the same
\* definition, and removed if the combined requirement does not give it.
resolve_node(g, priority_mapping, identifier, rest) ==
    \E conflicted \in Orders(conflicted_identifiers(g, heap, identifier)) :
    \E valid \in validate_node_requirements(g, heap, identifier, conflicted) :
        IF valid.err # ""
        THEN Raised(valid.err, valid.message, heap, stack, tags)
             /\ UNCHANGED division
        ELSE
        \E requirement \in {combined_requirement(g, heap, <<identifier>> \o conflicted,
                                                  priority_mapping)} :
        IF requirement.err # ""
        THEN Raised(requirement.err, NoDiagnostic, heap, stack, tags)
             /\ UNCHANGED division
        ELSE
        \E found \in {identifiers_from_requirement(requirement.value)} :
        IF found.err # ""
        THEN Raised(found.err, NoDiagnostic, heap, stack, tags)
             /\ UNCHANGED division
        ELSE IF identifier \in found.value THEN Continue(g, heap, rest)
        ELSE
        \E removed \in {remove_node(Context(g, heap), identifier).g} :
        IF found.value \ Range(conflicted) = {} THEN Continue(removed, heap, rest)
        ELSE add_requirement(removed, identifier, requirement.value, rest)

\* Lines 176-178: the identifiers the priority mapping has an entry for.
reachable_identifiers(ids, priority_mapping) ==
    SelectIn(ids, DOMAIN priority_mapping)

\* Lines 186-188 sorting the farthest node first: the pop of line 191 takes
\* the nearest one.
sort_identifiers_nearest_last(ids, priority_mapping) ==
    Reverse(StableSort(ids, [i \in DOMAIN ids |-> priority_mapping[ids[i]][1]]))

\* Lines 186-188: the identifiers sorted by priority.
sort_identifiers(ids, priority_mapping) ==
    StableSort(ids, [i \in DOMAIN ids |-> priority_mapping[ids[i]][1]])

\* Lines 170-237: one iteration of the loop of resolve_conflicts.
resolve_iteration ==
    /\ pc = "resolve"
    /\ \E priority_mapping \in {compute_priority_mapping(graph, heap)} :
       \E g \in {remove_unreachable_nodes(graph, priority_mapping.mapping)} :
       \E ids \in {sort_identifiers(
                      reachable_identifiers(identifiers, priority_mapping.mapping),
                      priority_mapping.mapping)} :
           IF priority_mapping.diverged THEN Hang
           ELSE IF Len(ids) = 0
           THEN /\ pc' = "resolved"
                /\ graph' = g
                /\ identifiers' = ids
                /\ UNCHANGED <<reg, requests, heap, stack, result, runs, previous,
                               tags, division, attempts, caught>>
           ELSE IF ~node_exists(g, Last(ids))
           THEN Raised("AttributeError", NoDiagnostic, heap, stack, tags)
                /\ UNCHANGED division
           ELSE resolve_node(g, priority_mapping.mapping, Last(ids), Front(ids))

\* Lines 80-82: the resolved graph is turned into the ordered list.
extract ==
    /\ pc = "resolved"
    /\ \E priority_mapping \in {compute_priority_mapping(graph, heap)} :
           IF priority_mapping.diverged THEN Hang
           ELSE \E definitions \in extract_ordered_definitions(
                                       graph, heap, priority_mapping.mapping) :
                    /\ pc' = "done"
                    /\ result' = Result("return", definitions, "", NoDiagnostic)
                    /\ UNCHANGED <<reg, requests, heap, graph, identifiers, stack,
                                   runs, previous, tags, division, attempts, caught>>

\* compute_definitions is called again on the same resolver with the same
\* requirements.
call_again ==
    /\ pc = "done"
    /\ runs < MaxRuns
    /\ pc' = "start"
    /\ runs' = runs + 1
    /\ previous' = result
    /\ result' = NoResult
    /\ heap' = EmptyHeap
    /\ graph' = Graph
    /\ identifiers' = << >>
    /\ stack' = << >>
    /\ tags' = << >>
    /\ division' = NoDivision
    /\ attempts' = << >>
    /\ caught' = << >>
    /\ UNCHANGED <<reg, requests>>

Next ==
    \/ build_graph
    \/ pop_and_divide
    \/ pop_and_resolve
    \/ resolve_iteration
    \/ extract
    \/ call_again

Spec == Init /\ [][Next]_vars

-----------------------------------------------------------------------------
(* wiz.definition.query on its own *)

\* Largest number of clauses in the specifier of a requirement queried.
MaxClauses == 2

\* The mappings query is run on: versions of A around 1.0, 1.4 and 1.9; the
\* unknown version beside a version (A) and alone (B); one version only.
QueryMappings ==
    << { Package("A", 10, << >>, << >>), Package("A", 14, << >>, << >>),
         Package("A", 19, << >>, << >>), Package("B", 10, << >>, << >>) },
       { Package("A", UNKNOWN_VALUE, << >>, << >>), Package("A", 14, << >>, << >>),
         Package("B", UNKNOWN_VALUE, << >>, << >>) },
       { Package("A", 14, << >>, << >>), Package("B", 10, << >>, << >>),
         Package("B", 19, << >>, << >>) } >>

QueryClauses ==
    { Clause("==", 14), Clause("!=", 19), Clause(">=", 14), Clause("<=", 10),
      Clause(">", 19), Clause("<", 14), Clause("<", 19), Clause(">=", 10) }

\* The requirements queried: a name registered or not ("N") and a specifier
\* of at most MaxClauses clauses.
QueryRequirements ==
    { Requirement(name, specifier, {}) :
        name \in {"A", "B", "N"},
        specifier \in {c \in SUBSET QueryClauses : Cardinality(c) <= MaxClauses} }

\* reg is the index of the mapping and requests holds the requirement.
InitQuery ==
    /\ reg \in DOMAIN QueryMappings
    /\ requests \in {<<requirement>> : requirement \in QueryRequirements}
    /\ pc = "query"
    /\ heap = EmptyHeap
    /\ graph = Graph
    /\ identifiers = << >>
    /\ stack = << >>
    /\ result = NoResult
    /\ runs = 1
    /\ previous = NoResult
    /\ tags = << >>
    /\ division = NoDivision
    /\ attempts = << >>
    /\ caught = << >>

\* query(requirement, definition_mapping) is called: result is the definition
\* returned or the exception raised.
call_query ==
    /\ pc = "query"
    /\ pc' = "queried"
    /\ result' = query(requests[1], QueryMappings[reg])
    /\ UNCHANGED <<reg, requests, heap, graph, identifiers, stack, runs,
                   previous, tags, division, attempts, caught>>

NextQuery == call_query

SpecQuery == InitQuery /\ [][NextQuery]_vars

-----------------------------------------------------------------------------
(* compute_priority_mapping on its own *)

\* Largest weight of a link, and largest number of links, of the graphs
\* compute_priority_mapping is run on.
MaxWeight == 2

MaxLinks == 4

PriorityNames == <<"A", "B", "C">>

PriorityNode(i) == [name |-> PriorityNames[i], variant |-> "", version |-> 10]

PriorityNodes == {PriorityNode(i) : i \in DOMAIN PriorityNames}

\* The parents in the order their dictionaries stand in the heap.
PriorityParents == <<ROOT>> \o [i \in DOMAIN PriorityNames |-> PriorityNode(i)]

\* The (parent, child) pairs a link can be on: root is no child, and no node
\* is linked to itself.
PriorityPairs ==
    {pair \in (Range(PriorityParents) \X PriorityNodes) : pair[1] # pair[2]}

\* The weight of the link of every pair, 0 standing for no link.
PriorityLinks ==
    {links \in [PriorityPairs -> 0..MaxWeight] :
        Cardinality({pair \in PriorityPairs : links[pair] > 0}) <= MaxLinks}

\* The graph with the links given, as update_from_requirement builds it, from
\* which remove_node has removed the nodes of removed.
GraphOf(links, removed) ==
    LET children(parent) ==
            {child \in PriorityNodes :
                <<parent, child>> \in PriorityPairs /\ links[<<parent, child>>] > 0}
        parents(child) ==
            {parent \in Range(PriorityParents) :
                <<parent, child>> \in PriorityPairs /\ links[<<parent, child>>] > 0}
    IN  [g |-> [node_mapping |->
                    [id \in PriorityNodes \ removed |->
                        CHOOSE i \in DOMAIN PriorityNames : PriorityNode(i) = id],
                definition_mapping |->
                    [name \in Range(PriorityNames) |->
                        CHOOSE i \in DOMAIN PriorityNames : PriorityNames[i] = name],
                variant_mapping |-> {},
                link_mapping |->
                    [parent \in {q \in Range(PriorityParents) : children(q) # {}} |->
                        CHOOSE i \in DOMAIN PriorityParents :
                            PriorityParents[i] = parent]],
         h |-> [nodes |-> [i \in DOMAIN PriorityNames |->
                              [definition |->
                                   Definition(PriorityNames[i], 10, "", << >>),
                               parent_identifiers |-> parents(PriorityNode(i))]],
                sets |-> [i \in DOMAIN PriorityNames |-> {PriorityNode(i)}],
                dicts |-> [i \in DOMAIN PriorityParents |->
                              [child \in children(PriorityParents[i]) |->
                                  [requirement |-> Plain(child.name),
                                   weight |-> links[<<PriorityParents[i], child>>]]]]]]

\* graph and heap hold the graph compute_priority_mapping is called on.
InitPriority ==
    /\ \E links \in PriorityLinks : \E removed \in SUBSET PriorityNodes :
       \E built \in {GraphOf(links, removed)} :
           /\ graph = built.g
           /\ heap = built.h
    /\ reg = 1
    /\ requests = << >>
    /\ pc = "priority"
    /\ identifiers = << >>
    /\ stack = << >>
    /\ result = NoResult
    /\ runs = 1
    /\ previous = NoResult
    /\ tags = << >>
    /\ division = NoDivision
    /\ attempts = << >>
    /\ caught = << >>

\* compute_priority_mapping(graph) is called: result is the mapping returned,
\* or tells that the call does not return.
call_compute_priority_mapping ==
    /\ pc = "priority"
    /\ pc' = "prioritised"
    /\ result' = compute_priority_mapping(graph, heap)
    /\ UNCHANGED <<reg, requests, heap, graph, identifiers, stack, runs,
                   previous, tags, division, attempts, caught>>

NextPriority == call_compute_priority_mapping

SpecPriority == InitPriority /\ [][NextPriority]_vars

-----------------------------------------------------------------------------
(* The operations of Graph on their own *)

\* Number of operations called on the graph.
MaxOperations == 3

\* graph and heap hold a new Graph of the resolver of registry reg; result
\* names the last operation called on it and runs counts the operations.
InitGraph ==
    /\ reg \in DOMAIN Registries
    /\ requests = << >>
    /\ pc = "graph"
    /\ heap = EmptyHeap
    /\ graph = Graph
    /\ identifiers = << >>
    /\ stack = << >>
    /\ result = NoResult
    /\ runs = 0
    /\ previous = NoResult
    /\ tags = << >>
    /\ division = NoDivision
    /\ attempts = << >>
    /\ caught = << >>

\* The operation named kind was called with the argument given and raised err
\* ("" when it returned); the graph is left as g over the heap h.
Called(kind, argument, err, g, h) ==
    /\ runs < MaxOperations
    /\ runs' = runs + 1
    /\ result' = Result(kind, <<argument>>, err, NoDiagnostic)
    /\ graph' = g
    /\ heap' = h
    /\ UNCHANGED <<reg, requests, pc, identifiers, stack, previous, tags,
                   division, attempts, caught>>

\* graph.update_from_requirement(requirement).
call_update_from_requirement ==
    /\ pc = "graph"
    /\ \E requirement \in Menus[reg] :
       \E C \in {update_from_requirement(Context(graph, heap), requirement, ROOT, 1)} :
           Called("update_from_requirement", requirement, C.err, C.g, C.h)

\* graph.remove_node(identifier), for a node of the graph.
call_remove_node ==
    /\ pc = "graph"
    /\ \E identifier \in node_identifiers(graph) :
       \E C \in {remove_node(Context(graph, heap), identifier)} :
           Called("remove_node", identifier, C.err, C.g, C.h)

\* graph.reset_variant_groups().
call_reset_variant_groups ==
    /\ pc = "graph"
    /\ Called("reset_variant_groups", NoId, "", reset_variant_groups(graph), heap)

NextGraph ==
    \/ call_update_from_requirement
    \/ call_remove_node
    \/ call_reset_variant_groups

SpecGraph == InitGraph /\ [][NextGraph]_vars

-----------------------------------------------------------------------------
(* Resolver.combined_requirement on its own *)

\* Longest list of nodes combined_requirement is called with.
MaxCombined == 3

\* The requirements of the links to the nodes combined.
CombinedRequirements ==
    { Requirement(name, specifier, extras) :
        name \in {"A", "B"},
        specifier \in SUBSET {Clause(">=", 10), Clause("<", 20)},
        extras \in {{}, {"V1"}} }

\* The node of index i, required from root by requirements[i].
CombinedNode(requirements, i) ==
    [name |-> requirements[i].name, variant |-> "", version |-> 10 + i]

\* The graph in which root has a link to one node per requirement of the list.
CombinedGraph(requirements) ==
    [g |-> [node_mapping |->
                [id \in {CombinedNode(requirements, i) : i \in DOMAIN requirements} |->
                    CHOOSE i \in DOMAIN requirements :
                        CombinedNode(requirements, i) = id],
            definition_mapping |->
                [name \in {requirements[i].name : i \in DOMAIN requirements} |->
                    CHOOSE n \in 1..2 : <<"A", "B">>[n] = name],
            variant_mapping |-> {},
            link_mapping |-> [parent \in {ROOT} |-> 1]],
     h |-> [nodes |-> [i \in DOMAIN requirements |->
                          [definition |->
                               Definition(requirements[i].name, 10 + i, "", << >>),
                           parent_identifiers |-> {ROOT}]],
            sets |-> [n \in 1..2 |->
                         {CombinedNode(requirements, i) :
                             i \in {j \in DOMAIN requirements :
                                       requirements[j].name = <<"A", "B">>[n]}}],
            dicts |-> << [id \in {CombinedNode(requirements, i) :
                                     i \in DOMAIN requirements} |->
                            [requirement |->
                                 requirements[CHOOSE i \in DOMAIN requirements :
                                                 CombinedNode(requirements, i) = id],
                             weight |-> 1]] >>]]

\* requests holds the requirements of the links, graph and heap the graph,
\* and identifiers the nodes combined_requirement is called with.
InitCombine ==
    /\ requests \in UNION {[1..n -> CombinedRequirements] : n \in 1..MaxCombined}
    /\ \E built \in {CombinedGraph(requests)} :
           /\ graph = built.g
           /\ heap = built.h
    /\ identifiers = [i \in DOMAIN requests |-> CombinedNode(requests, i)]
    /\ reg = 1
    /\ pc = "combine"
    /\ stack = << >>
    /\ result = NoResult
    /\ runs = 1
    /\ previous = NoResult
    /\ tags = << >>
    /\ division = NoDivision
    /\ attempts = << >>
    /\ caught = << >>

\* combined_requirement(graph, identifiers, priority_mapping) is called with
\* the priority mapping of the graph: result is the requirement returned or
\* the exception raised.
call_combined_requirement ==
    /\ pc = "combine"
    /\ pc' = "combined"
    /\ result' = combined_requirement(graph, heap, identifiers,
                      compute_priority_mapping(graph, heap).mapping)
    /\ UNCHANGED <<reg, requests, heap, graph, identifiers, stack, runs,
                   previous, tags, division, attempts, caught>>

NextCombine == call_combined_requirement

SpecCombine == InitCombine /\ [][NextCombine]_vars

-----------------------------------------------------------------------------
(* Definition: encode, and the construction from the parsed data *)

\* Longest list, and largest mapping, held by a field of a definition.
MaxItems == 1

\* Definition._ordered_keywords and _Variant._ordered_keywords.
ordered_keywords(variant) ==
    IF variant
    THEN <<"identifier", "command", "environ", "requirements", "constraints">>
    ELSE <<"identifier", "version", "description", "registry",
           "definition-location", "install-location", "auto-use", "system",
           "command", "environ", "requirements", "constraints", "variants">>

\* The mappings to_mapping() gives for the definitions constructed: a value
\* is a record of one field, named str, bool, version, requirement, list,
\* dict or variant after what it holds.
RoundTripDefinitions ==
    LET Optional(key, values) == {EmptyMap} \cup {key :> v : v \in values}
        Lists(S) == UNION {[1..n -> S] : n \in 0..MaxItems}
        Requirements ==
            {[list |-> l] :
                l \in Lists({[requirement |-> Requirement("A", {Clause(">=", 10)}, {})],
                             [requirement |-> Plain("B")]})}
        Commands ==
            {[dict |-> [k \in K |-> [str |-> "run"]]] :
                K \in {K \in SUBSET {"app", "cmd"} : Cardinality(K) <= MaxItems}}
        Variants ==
            {("identifier" :> [str |-> "V1"]) @@ r :
                r \in Optional("requirements", Requirements)}
    IN  { ("identifier" :> [str |-> "foo"]) @@ version @@ auto @@ command
              @@ requirements @@ variants :
            version \in Optional("version", {[version |-> 10]}),
            auto \in Optional("auto-use", {[bool |-> TRUE], [bool |-> FALSE]}),
            command \in Optional("command", Commands),
            requirements \in Optional("requirements", Requirements),
            variants \in Optional("variants",
                            {[list |-> l] :
                                l \in Lists({[variant |-> v] : v \in Variants})}) }

RECURSIVE extract_element(_)
\* _extract of MappingMixin.to_ordered_mapping: the lists and the dicts that
\* are not empty are gone through, a mapping object gives its own ordered
\* mapping, and str() is applied to everything else. A string written is a
\* record of one field, chars for the characters of a string, or version or
\* requirement for the text of one.
extract_element(element) ==
    LET str == CASE "str" \in DOMAIN element -> [chars |-> element.str]
                 [] "bool" \in DOMAIN element ->
                        [chars |-> IF element.bool THEN "True" ELSE "False"]
                 [] "list" \in DOMAIN element -> [chars |-> "[]"]
                 [] "dict" \in DOMAIN element -> [chars |-> "{}"]
                 [] OTHER -> element
        keys(mapping) == SelectSeq(ordered_keywords(TRUE),
                                   LAMBDA key : key \in DOMAIN mapping)
        ordered(mapping, ks) ==
            [i \in DOMAIN ks |-> <<ks[i], extract_element(mapping[ks[i]])>>]
    IN  CASE "list" \in DOMAIN element /\ element.list # << >> ->
                 [list |-> [i \in DOMAIN element.list |->
                               extract_element(element.list[i])]]
          [] "dict" \in DOMAIN element /\ DOMAIN element.dict # {} ->
                 [dict |-> [k \in DOMAIN element.dict |->
                               extract_element(element.dict[k])]]
          [] "variant" \in DOMAIN element ->
                 [object |-> ordered(element.variant, keys(element.variant))]
          [] OTHER -> [str |-> str]

\* MappingMixin.to_ordered_mapping of a definition: the keys of the mapping
\* in the order of the keywords, each with its value extracted.
to_ordered_mapping(mapping) ==
    LET keys == SelectSeq(ordered_keywords(FALSE), LAMBDA key : key \in DOMAIN mapping)
    IN  [i \in DOMAIN keys |-> <<keys[i], extract_element(mapping[keys[i]])>>]

\* wiz.validator.yield_definition_errors: whether the data may be refused,
\* a keyword holding a string where the format has a boolean, a list or a
\* mapping.
yield_definition_errors(data) ==
    IF \E key \in (DOMAIN data) \cap
                    {"auto-use", "command", "requirements", "variants"} :
           "str" \in DOMAIN data[key]
    THEN BOOLEAN ELSE {FALSE}

\* Definition.__init__ with the data json.loads gives for what encode wrote
\* (pairs): the outcomes, the refusal of the validator included.
Definition_init(pairs) ==
    LET data(ps) == [key \in {ps[i][1] : i \in DOMAIN ps} |->
                        ps[CHOOSE i \in DOMAIN ps : ps[i][1] = key][2]]
        \* wiz.utility.get_version and get_requirement on a string.
        parsed(kind, string) ==
            IF "str" \in DOMAIN string /\ kind \in DOMAIN string.str
            THEN Return(string.str)
            ELSE Raise("IncorrectDefinition")
        requirements(value) ==
            IF "list" \notin DOMAIN value THEN Raise("IncorrectDefinition")
            ELSE IF \E i \in DOMAIN value.list :
                       parsed("requirement", value.list[i]).err # ""
            THEN Raise("IncorrectDefinition")
            ELSE Return([list |-> [i \in DOMAIN value.list |->
                                      parsed("requirement", value.list[i]).value]])
        \* The strings of the data are the characters written.
        chars(string) ==
            CASE "chars" \in DOMAIN string.str -> string.str.chars
              [] "version" \in DOMAIN string.str -> "version"
              [] OTHER -> "requirement"
        loaded(value) ==
            CASE "str" \in DOMAIN value -> [str |-> chars(value)]
              [] "dict" \in DOMAIN value ->
                     [dict |-> [k \in DOMAIN value.dict |->
                                   [str |-> chars(value.dict[k])]]]
              [] OTHER -> value
        variant(value) ==
            IF "object" \notin DOMAIN value THEN Raise("AttributeError")
            ELSE IF "requirements" \in DOMAIN data(value.object)
                    /\ requirements(data(value.object)["requirements"]).err # ""
            THEN Raise("IncorrectDefinition")
            ELSE Return([variant |->
                            [key \in DOMAIN data(value.object) |->
                                IF key = "requirements"
                                THEN requirements(data(value.object)[key]).value
                                ELSE loaded(data(value.object)[key])]])
        variants(value) ==
            IF "list" \notin DOMAIN value THEN Raise("AttributeError")
            ELSE IF \E i \in DOMAIN value.list : variant(value.list[i]).err # ""
            THEN Raise((variant(value.list[CHOOSE i \in DOMAIN value.list :
                                              variant(value.list[i]).err # ""])).err)
            ELSE Return([list |-> [i \in DOMAIN value.list |->
                                      variant(value.list[i]).value]])
        field(key, value) ==
            CASE key = "version" -> parsed("version", value)
              [] key = "requirements" -> requirements(value)
              [] key = "variants" -> variants(value)
              [] OTHER -> Return(loaded(value))
        construct(mapping) ==
            IF \E key \in (DOMAIN mapping) \cap {"version", "requirements"} :
                   field(key, mapping[key]).err # ""
            THEN Raise("IncorrectDefinition")
            ELSE IF \E key \in DOMAIN mapping : field(key, mapping[key]).err # ""
            THEN Raise(field("variants", mapping["variants"]).err)
            ELSE Return([key \in DOMAIN mapping |-> field(key, mapping[key]).value])
    IN  {IF refused THEN Raise("IncorrectDefinition") ELSE construct(data(pairs)) :
            refused \in yield_definition_errors(data(pairs))}

\* requests holds the mapping of a definition, previous what encode gives for
\* it and result the definition constructed from it.
InitRoundTrip ==
    /\ requests \in RoundTripDefinitions
    /\ pc = "definition"
    /\ previous = << >>
    /\ result = Raise("")
    /\ reg = 1
    /\ heap = EmptyHeap
    /\ graph = Graph
    /\ identifiers = << >>
    /\ stack = << >>
    /\ runs = 1
    /\ tags = << >>
    /\ division = NoDivision
    /\ attempts = << >>
    /\ caught = << >>

\* MappingMixin.encode: json.dumps of the ordered mapping.
call_encode ==
    /\ pc = "definition"
    /\ pc' = "encoded"
    /\ previous' = to_ordered_mapping(requests)
    /\ UNCHANGED <<reg, requests, heap, graph, identifiers, stack, result, runs,
                   tags, division, attempts, caught>>

\* The text is parsed and a Definition is constructed from the data.
call_load ==
    /\ pc = "encoded"
    /\ pc' = "loaded"
    /\ result' \in Definition_init(previous)
    /\ UNCHANGED <<reg, requests, heap, graph, identifiers, stack, runs,
                   previous, tags, division, attempts, caught>>

NextRoundTrip == call_encode \/ call_load

SpecRoundTrip == InitRoundTrip /\ [][NextRoundTrip]_vars

-----------------------------------------------------------------------------
(* wiz.definition.fetch *)

\* Largest number of definitions discovered, and of requests given to fetch.
MaxDiscovered == 3

MaxRequested == 2

\* The definitions discover may yield. Strings are sequences of characters;
\* description is what the property gives, "unknown" for a definition that
\* has none. Ab has no description; the description of b is xA.
FetchDefinitions ==
    { [identifier |-> <<"A", "b">>, version |-> version,
       description |-> <<"u", "n", "k", "n", "o", "w", "n">>,
       auto_use |-> auto_use, command |-> {"app"}] :
          version \in {10, 20}, auto_use \in BOOLEAN }
    \cup
    { [identifier |-> <<"b">>, version |-> version,
       description |-> <<"x", "A">>,
       auto_use |-> auto_use, command |-> {"app", "cmd"}] :
          version \in {20, UNKNOWN_VALUE}, auto_use \in BOOLEAN }

\* The requests fetch may be given, as wiz.utility.get_requirement reads them.
FetchRequests ==
    { Requirement(<<"a">>, {}, {}), Requirement(<<"n">>, {}, {}),
      Requirement(<<"B">>, {Clause(">=", 20)}, {}) }

\* validate with the test of the names passed by one request of the list.
validate_any_name(definition, requirements) ==
    LET lower(string) ==
            [i \in DOMAIN string |->
                CASE string[i] = "A" -> "a" [] string[i] = "B" -> "b"
                  [] OTHER -> string[i]]
        in(part, string) ==
            \E k \in 0..(Len(string) - Len(part)) :
                SubSeq(string, k + 1, k + Len(part)) = part
    IN  /\ \E i \in DOMAIN requirements :
              \/ in(lower(requirements[i].name), lower(definition.identifier))
              \/ in(lower(requirements[i].name), lower(definition.description))
        /\ \A i \in DOMAIN requirements :
              SpecifierContains(requirements[i].specifier, definition.version)

\* validate(definition, requests): the list is not empty, and for each
\* requirement the name is part of the identifier or of the description, in
\* lower case, and the version is in the specifier.
validate(definition, requirements) ==
    LET lower(string) ==
            [i \in DOMAIN string |->
                CASE string[i] = "A" -> "a" [] string[i] = "B" -> "b"
                  [] OTHER -> string[i]]
        in(part, string) ==
            \E k \in 0..(Len(string) - Len(part)) :
                SubSeq(string, k + 1, k + Len(part)) = part
    IN  /\ Len(requirements) # 0
        /\ \A i \in DOMAIN requirements :
              /\ \/ in(lower(requirements[i].name), lower(definition.identifier))
                 \/ in(lower(requirements[i].name), lower(definition.description))
              /\ SpecifierContains(requirements[i].specifier, definition.version)

\* Lines 103-107 without reverse=True: the keys by the index of their first
\* occurrence in implicit_definitions.
implicit_order_of_discovery(keys, implicit_definitions) ==
    LET first == SelectSeq(
                     [i \in DOMAIN implicit_definitions |-> i],
                     LAMBDA i :
                         /\ implicit_definitions[i] \in keys
                         /\ \A j \in 1..(i - 1) :
                               implicit_definitions[j] # implicit_definitions[i])
    IN  [n \in DOMAIN first |-> implicit_definitions[first[n]]]

\* Lines 103-107: the keys of implicit_definition_mapping sorted by the index
\* of their first occurrence in implicit_definitions, in reverse.
implicit_order(keys, implicit_definitions) ==
    LET first == SelectSeq(
                     [i \in DOMAIN implicit_definitions |-> i],
                     LAMBDA i :
                         /\ implicit_definitions[i] \in keys
                         /\ \A j \in 1..(i - 1) :
                               implicit_definitions[j] # implicit_definitions[i])
    IN  Reverse([n \in DOMAIN first |-> implicit_definitions[first[n]]])

\* fetch(paths, requests) for the definitions discover yields, without a
\* system mapping: the mapping returned, or the exception of query. A
\* mapping from version to definition is the set of its definitions, one per
\* version.
fetch(discovered, given) ==
    LET Set(mapping, definition) ==
            {d \in mapping : ~(/\ d.identifier = definition.identifier
                               /\ d.version = definition.version)}
                \cup {definition}
        Record(mapping, definition) ==
            [package |-> Set(mapping.package, definition),
             command |-> [c \in (DOMAIN mapping.command) \cup definition.command |->
                             IF c \in definition.command THEN definition.identifier
                             ELSE mapping.command[c]],
             implicit_definitions |->
                 IF definition.auto_use
                 THEN Append(mapping.implicit_definitions, definition.identifier)
                 ELSE mapping.implicit_definitions,
             implicit_definition_mapping |->
                 IF definition.auto_use
                 THEN Set(mapping.implicit_definition_mapping, definition)
                 ELSE mapping.implicit_definition_mapping]
        RECURSIVE Discover(_, _)
        Discover(mapping, i) ==
            IF i > Len(discovered) THEN mapping
            ELSE IF given.requests /\ ~validate(discovered[i], given.list)
            THEN Discover(mapping, i + 1)
            ELSE Discover(Record(mapping, discovered[i]), i + 1)
        Implicit(mapping, order) ==
            LET found == [i \in DOMAIN order |->
                             query(Requirement(order[i], {}, {}),
                                   mapping.implicit_definition_mapping)]
            IN  IF \E i \in DOMAIN found : found[i].err # ""
                THEN [err |-> "RequestNotFound", package |-> {},
                      command |-> EmptyMap, implicit |-> << >>]
                ELSE [err |-> "", package |-> mapping.package,
                      command |-> mapping.command,
                      implicit |-> [i \in DOMAIN found |->
                                       <<found[i].value.identifier,
                                         found[i].value.version>>]]
        Finished(mapping) ==
            Implicit(mapping,
                implicit_order({d.identifier : d \in mapping.implicit_definition_mapping},
                               mapping.implicit_definitions))
    IN  Finished(Discover([package |-> {}, command |-> EmptyMap,
                           implicit_definitions |-> << >>,
                           implicit_definition_mapping |-> {}], 1))

\* stack holds the definitions discover yields, in order, and requests the
\* requests argument (requests false: None).
InitFetch ==
    /\ stack \in UNION {[1..n -> FetchDefinitions] : n \in 0..MaxDiscovered}
    /\ requests \in {[requests |-> FALSE, list |-> << >>]}
                     \cup {[requests |-> TRUE, list |-> list] :
                             list \in UNION {[1..n -> FetchRequests] :
                                                n \in 0..MaxRequested}}
    /\ pc = "fetch"
    /\ result = [err |-> "", package |-> {}, command |-> EmptyMap, implicit |-> << >>]
    /\ reg = 1
    /\ heap = EmptyHeap
    /\ graph = Graph
    /\ identifiers = << >>
    /\ runs = 1
    /\ previous = NoResult
    /\ tags = << >>
    /\ division = NoDivision
    /\ attempts = << >>
    /\ caught = << >>

\* fetch is called: result is the mapping returned or the exception.
call_fetch ==
    /\ pc = "fetch"
    /\ pc' = "fetched"
    /\ result' = fetch(stack, requests)
    /\ UNCHANGED <<reg, requests, heap, graph, identifiers, stack, runs,
                   previous, tags, division, attempts, caught>>

SpecFetch == InitFetch /\ [][call_fetch]_vars

-----------------------------------------------------------------------------
(* _PriorityQueue on its own *)

\* The greatest priority given to an identifier of the queue.
MaxPriority == 2

\* The identifiers put in the queue.
QueueIdentifiers ==
    { [name |-> "A", variant |-> "", version |-> 10],
      [name |-> "B", variant |-> "", version |-> 10],
      [name |-> "C", variant |-> "", version |-> 10] }

\* The order of the (priority, identifier) tuples of the heap.
HeapLess(e, f) == e[1] < f[1] \/ (e[1] = f[1] /\ IdLess(e[2], f[2]))

\* heapq gives the entries of the heap smallest first, and this is all the
\* queue reads of it: the heap is the list of its entries in that order.
heappush(h, e) ==
    LET k == Cardinality({i \in DOMAIN h : ~HeapLess(e, h[i])})
    IN  SubSeq(h, 1, k) \o <<e>> \o SubSeq(h, k + 1, Len(h))

\* _PriorityQueue._build_heap: one entry per item of the mapping.
build_heap(mapping) ==
    LET o == CHOOSE o \in Orders(DOMAIN mapping) :
                 \A i, j \in DOMAIN o :
                     i < j => HeapLess(<<mapping[o[i]], o[i]>>, <<mapping[o[j]], o[j]>>)
    IN  [i \in DOMAIN o |-> <<mapping[o[i]], o[i]>>]

\* _PriorityQueue.__setitem__ on the queue of mapping m and heap h.
setitem(m, h, identifier, priority) ==
    LET mapping == Put(m, identifier, priority)
    IN  [mapping |-> mapping,
         heap |-> IF Len(h) < 2 * Cardinality(DOMAIN mapping)
                  THEN heappush(h, <<priority, identifier>>)
                  ELSE build_heap(mapping)]

\* What pop_smallest gives: the identifier returned or the error raised, the
\* queue left and the number of entries it skipped.
Popped(err, identifier, m, h, skipped) ==
    [err |-> err, identifier |-> identifier, mapping |-> m, heap |-> h,
     skipped |-> skipped]

\* _PriorityQueue.pop_smallest without the loop of line 937: the first entry of
\* the heap is returned.
heap_pop_smallest_first(m, h, skipped) ==
    IF Len(h) = 0 THEN Popped("IndexError", NoId, m, h, skipped)
    ELSE IF Head(h)[2] \notin DOMAIN m
         THEN Popped("KeyError", NoId, m, Tail(h), skipped)
    ELSE Popped("", Head(h)[2], Del(m, Head(h)[2]), Tail(h), skipped)

RECURSIVE heap_pop_smallest(_, _, _)
\* _PriorityQueue.pop_smallest: entries are popped until one holds the
\* priority its identifier has in the mapping.
heap_pop_smallest(m, h, skipped) ==
    IF Len(h) = 0 THEN Popped("IndexError", NoId, m, h, skipped)
    ELSE IF Head(h)[2] \notin DOMAIN m \/ m[Head(h)[2]] # Head(h)[1]
         THEN heap_pop_smallest(m, Tail(h), skipped + 1)
    ELSE Popped("", Head(h)[2], Del(m, Head(h)[2]), Tail(h), skipped)

\* The queue is the mapping identifiers with the heap heap; result tells the
\* last operation and previous the mapping it was called on.
InitQueue ==
    /\ identifiers = EmptyMap
    /\ heap = << >>
    /\ pc = "queue"
    /\ result = [kind |-> "none", err |-> "", identifier |-> NoId, skipped |-> 0]
    /\ previous = EmptyMap
    /\ reg = 1
    /\ requests = << >>
    /\ graph = Graph
    /\ stack = << >>
    /\ runs = 0
    /\ tags = << >>
    /\ division = NoDivision
    /\ attempts = << >>
    /\ caught = << >>

\* queue[identifier] = priority, for a new identifier or one of the queue.
call_setitem ==
    /\ pc = "queue"
    /\ \E identifier \in QueueIdentifiers : \E priority \in 1..MaxPriority :
       \E q \in {setitem(identifiers, heap, identifier, priority)} :
           /\ identifiers' = q.mapping
           /\ heap' = q.heap
           /\ result' = [kind |-> "set", err |-> "", identifier |-> identifier,
                         skipped |-> 0]
    /\ previous' = identifiers
    /\ UNCHANGED <<reg, requests, pc, graph, stack, runs, tags, division,
                   attempts, caught>>

\* queue.pop_smallest().
call_pop_smallest ==
    /\ pc = "queue"
    /\ \E popped \in {heap_pop_smallest(identifiers, heap, 0)} :
           /\ identifiers' = popped.mapping
           /\ heap' = popped.heap
           /\ result' = [kind |-> "pop", err |-> popped.err,
                         identifier |-> popped.identifier,
                         skipped |-> popped.skipped]
    /\ previous' = identifiers
    /\ UNCHANGED <<reg, requests, pc, graph, stack, runs, tags, division,
                   attempts, caught>>

SpecQueue == InitQueue /\ [][call_setitem \/ call_pop_smallest]_vars

-----------------------------------------------------------------------------
(* Properties of compute_definitions *)

Returned == pc = "done" /\ result.kind = "return"

\* Whether a definition of the list satisfies a requirement.
Satisfies(definition, requirement) ==
    /\ definition.identifier = requirement.name
    /\ SpecifierContains(requirement.specifier, definition.version)
    /\ requirement.extras = {} \/ definition.variant \in requirement.extras

\* C1: whenever compute_definitions returns a list, no two definitions of the
\* list have the same definition identifier.
C1_OneVersionPerIdentifier ==
    Returned =>
        \A i, j \in DOMAIN result.definitions :
            result.definitions[i].identifier = result.definitions[j].identifier
                => i = j

\* A list is returned for a graph that held two nodes of the same definition.
C1_ConflictResolved ==
    /\ Returned
    /\ Len(result.definitions) > 1
    /\ \E i \in DOMAIN heap.sets : Cardinality(heap.sets[i]) > 1

\* C2: every requirement of a definition of the returned list is satisfied by
\* a definition that stands earlier in the list.
C2_RequirementsComeFirst ==
    Returned =>
        \A i \in DOMAIN result.definitions :
            \A n \in DOMAIN result.definitions[i].requirement :
                \E j \in 1..(i - 1) :
                    Satisfies(result.definitions[j],
                              result.definitions[i].requirement[n])

\* C3: a second call of compute_definitions with the same requirements on the
\* same registry ends as the first one did, whatever the iteration orders.
C3_SameResultAgain ==
    (pc = "done" /\ runs > 1) => result = previous

\* What a graph gives access to: its nodes with their parents, its links per
\* parent, its identifiers per definition and its variant groups.
Dereferenced(g, h) ==
    [nodes |-> [id \in DOMAIN g.node_mapping |->
                   h.nodes[g.node_mapping[id]].parent_identifiers],
     links |-> [id \in DOMAIN g.link_mapping |-> h.dicts[g.link_mapping[id]]],
     index |-> [d \in DOMAIN g.definition_mapping |->
                   h.sets[g.definition_mapping[d]]],
     groups |-> g.variant_mapping]

\* C4: what resolve_conflicts does to the graph popped (remove_node,
\* update_from_requirement) changes nothing of the graphs left on the stack,
\* which are copies made by the same division.
C4_CopiesIndependent ==
    [][pc = "resolve" =>
          \A i \in DOMAIN stack :
              i \in DOMAIN stack' =>
                  Dereferenced(stack'[i], heap') = Dereferenced(stack[i], heap)]_vars

\* The members of a variant group that are nodes of a graph.
Chosen(g, variant_group) ==
    {id \in Range(variant_group) : node_exists(g, id)}

\* C5: every graph divide pushes holds exactly one member of each variant group
\* of the graph divided and has no variant group; every choice of one member
\* per group is held by exactly one of the graphs pushed.
C5_OneMemberPerGroup ==
    division.count > 0 =>
        /\ \A i \in DOMAIN division.pushed :
              /\ variant_groups(division.pushed[i]) = {}
              /\ \A n \in DOMAIN division.groups :
                    Cardinality(Chosen(division.pushed[i], division.groups[n])) = 1
        /\ Range(division.groups) = variant_groups(division.source)
        /\ \A choice \in {c \in [DOMAIN division.groups ->
                                   UNION {Range(division.groups[n]) :
                                             n \in DOMAIN division.groups}] :
                             \A n \in DOMAIN division.groups :
                                 c[n] \in Range(division.groups[n])} :
              Cardinality({i \in DOMAIN division.pushed :
                              \A n \in DOMAIN division.groups :
                                  node_exists(division.pushed[i], choice[n])}) = 1

\* A graph with two variant groups has been divided into four graphs.
C5_TwoGroupsDivided ==
    /\ division.count > 0
    /\ Len(division.groups) = 2
    /\ Len(division.pushed) = 4

\* Order of two combinations of the same division: the first group decides,
\* then the second, and so on.
LexLess(a, b) ==
    \E n \in DOMAIN a :
        /\ a[n] < b[n]
        /\ \A m \in 1..(n - 1) : a[m] = b[m]

\* The list expected for the request of A alone, A having the variants
\* V1 (requires X==1) and V2 (requires X==2).
FirstVariantList ==
    << Definition("X", 10, "", << >>),
       Definition("A", 10, "V1", <<Eq("X", 10)>>) >>

FirstVariantScenario ==
    (reg = 3 /\ requests = <<Plain("A")>> /\ pc = "done")
        => result = Result("return", FirstVariantList, "", NoDiagnostic)

\* C6, as stated: a graph is attempted only when no graph of the same division
\* that is still to be attempted holds an earlier variant of any group; the
\* request of A alone gives [X-1, A[V1]].
C6_EarlierVariantOfEveryGroupFirst ==
    /\ \A k \in DOMAIN attempts : \A i \in DOMAIN tags :
          attempts[k].division = tags[i].division =>
              \A n \in DOMAIN attempts[k].combination :
                  attempts[k].combination[n] <= tags[i].combination[n]
    /\ FirstVariantScenario

\* C6, amended: the graphs of a division are attempted in the lexicographic
\* order of their combinations, the groups taken in the order divide sorted
\* them; the first one attempted holds the first variant of every group, and a
\* graph is attempted only after the ones before it have failed; the request
\* of A alone gives [X-1, A[V1]].
C6_LexicographicOrder ==
    /\ \A k \in DOMAIN attempts : \A i \in DOMAIN tags :
          attempts[k].division = tags[i].division =>
              LexLess(attempts[k].combination, tags[i].combination)
    /\ \A k, l \in DOMAIN attempts :
          (k < l /\ attempts[k].division = attempts[l].division) =>
              LexLess(attempts[k].combination, attempts[l].combination)
    /\ \A k \in DOMAIN attempts :
          (\A l \in 1..(k - 1) : attempts[l].division # attempts[k].division) =>
              \A n \in DOMAIN attempts[k].combination :
                  attempts[k].combination[n] = 1
    /\ Len(attempts) <= Len(caught) + 1
    /\ FirstVariantScenario

\* The second graph of a division into four is attempted after the first failed.
C6_SecondOfFourAttempted ==
    /\ Len(attempts) > 1
    /\ attempts[Len(attempts)].combination = <<1, 2>>
    /\ attempts[Len(attempts) - 1].division = attempts[Len(attempts)].division

IntersectionRequest ==
    reg = 1 /\ requests = <<Plain("A"), Plain("D")>> /\ pc = "done"

\* C7, as stated: with A-1 requiring C>=1,<2, D-1 requiring C<1.5 and C-1.0,
\* C-1.4, C-1.9, the request [A, D] gives [C-1.4, A-1, D-1].
C7_IntersectionAThenD ==
    IntersectionRequest =>
        result = Result("return",
                        << Definition("C", 14, "", << >>),
                           Definition("A", 10, "",
                               <<Requirement("C", {Clause(">=", 10), Clause("<", 20)}, {})>>),
                           Definition("D", 10, "",
                               <<Requirement("C", {Clause("<", 15)}, {})>>) >>,
                        "", NoDiagnostic)

\* C7, amended: the request [A, D] gives [C-1.4, D-1, A-1]: D, the second
\* request, has the greater priority and stands before A.
C7_IntersectionDThenA ==
    IntersectionRequest =>
        result = Result("return",
                        << Definition("C", 14, "", << >>),
                           Definition("D", 10, "",
                               <<Requirement("C", {Clause("<", 15)}, {})>>),
                           Definition("A", 10, "",
                               <<Requirement("C", {Clause(">=", 10), Clause("<", 20)}, {})>>) >>,
                        "", NoDiagnostic)

\* The request [A, D] returned a list of three definitions.
C7_IntersectionReturned ==
    IntersectionRequest /\ result.kind = "return" /\ Len(result.definitions) = 3

FallbackRequest ==
    reg = 3 /\ requests = <<Plain("A"), Plain("Y")>> /\ pc = "done"

\* The V1 graph was attempted and failed on the conflict, then the V2 graph.
FallbackAttempts ==
    /\ attempts = <<Tag(1, <<1>>), Tag(1, <<2>>)>>
    /\ caught = <<"GraphResolutionError">>

\* C8, as stated: with A of variants V1 (requires X==1) and V2 (requires
\* X==2), X-1, X-2 and Y requiring X==2, the request [A, Y] tries V1, which
\* fails, then V2, and gives [X-2, A[V2], Y].
C8_FallbackAThenY ==
    FallbackRequest =>
        /\ FallbackAttempts
        /\ result = Result("return",
                           << Definition("X", 20, "", << >>),
                              Definition("A", 10, "V2", <<Eq("X", 20)>>),
                              Definition("Y", 10, "", <<Eq("X", 20)>>) >>,
                           "", NoDiagnostic)

\* C8, amended: the request [A, Y] tries V1, which fails, then V2, and gives
\* [X-2, Y, A[V2]]: Y, the second request, stands before A[V2].
C8_FallbackYThenA ==
    FallbackRequest =>
        /\ FallbackAttempts
        /\ result = Result("return",
                           << Definition("X", 20, "", << >>),
                              Definition("Y", 10, "", <<Eq("X", 20)>>),
                              Definition("A", 10, "V2", <<Eq("X", 20)>>) >>,
                           "", NoDiagnostic)

\* The request [A, Y] returned a list after one graph had failed.
C8_FallbackReturned ==
    FallbackRequest /\ result.kind = "return" /\ Len(caught) = 1

\* The parents a node is required through: the keys of its requirement mapping.
incoming(g, h, identifier) ==
    {id \in node(g, h, identifier).parent_identifiers :
        (node_exists(g, id) \/ id = ROOT) /\ link_exists(g, h, identifier, id)}

\* Two nodes required through links such that the version of each one is not
\* in the specifier of the requirement of the other.
Unsatisfiable(g, h, identifier1, identifier2) ==
    \E parent1 \in incoming(g, h, identifier1) :
    \E parent2 \in incoming(g, h, identifier2) :
        /\ ~SpecifierContains(
               link_requirement(g, h, identifier2, parent2).specifier,
               node(g, h, identifier1).definition.version)
        /\ ~SpecifierContains(
               link_requirement(g, h, identifier1, parent1).specifier,
               node(g, h, identifier2).definition.version)

\* The node the iteration of resolve_conflicts picks in the graph g, of
\* reachable nodes only, is in such a conflict with a node of its definition.
PickedUnsatisfiable(g, ids) ==
    /\ Len(ids) > 0
    /\ node_exists(g, Last(ids))
    /\ \E other \in conflicted_identifiers(g, heap, Last(ids)) :
           Unsatisfiable(g, heap, Last(ids), other)

UnresolvableConflict ==
    /\ pc = "resolve"
    /\ Len(stack) = 0
    /\ \E priority_mapping \in {compute_priority_mapping(graph, heap).mapping} :
           PickedUnsatisfiable(
               remove_unreachable_nodes(graph, priority_mapping),
               sort_identifiers(reachable_identifiers(identifiers, priority_mapping),
                                priority_mapping))

\* The diagnostic names two requirements in conflict on two nodes of the
\* definition, each with the parent it comes from.
NamesBoth(message) ==
    \E identifier1, identifier2 \in node_identifiers(graph) :
        /\ identifier1 # identifier2
        /\ identifier1.name = message.definition
        /\ identifier2.name = message.definition
        /\ link_exists(graph, heap, identifier1, message.parent1)
        /\ link_exists(graph, heap, identifier2, message.parent2)
        /\ message.requirement1 =
               link_requirement(graph, heap, identifier1, message.parent1)
        /\ message.requirement2 =
               link_requirement(graph, heap, identifier2, message.parent2)
        /\ ~SpecifierContains(message.requirement2.specifier,
                              node(graph, heap, identifier1).definition.version)
        /\ ~SpecifierContains(message.requirement1.specifier,
                              node(graph, heap, identifier2).definition.version)

C10_CaughtOnlyWithAlternatives ==
    [][pc = "resolve" =>
          /\ (Len(caught') > Len(caught) /\ Last(caught') = "GraphResolutionError") =>
                 /\ pc' = "loop"
                 /\ Len(stack') > 0
                 /\ SubSeq(stack', 1, Len(stack)) = stack
                 /\ result' = NoResult
          /\ (pc' = "done" /\ result'.err = "GraphResolutionError") =>
                 /\ Len(stack') = 0
                 /\ caught' = caught
          /\ pc' = "loop" => Len(caught') > Len(caught)
      ]_vars

\* A first graph failed and was dropped, and the error of the last graph left
\* compute_definitions.
C10_CaughtThenRaised ==
    /\ pc = "done"
    /\ result.kind = "raise"
    /\ result.err = "GraphResolutionError"
    /\ caught = <<"GraphResolutionError">>

\* C11: an error of resolve_conflicts that is not a GraphResolutionError is
\* never caught by compute_definitions: it leaves compute_definitions, also when
\* graphs are left on the stack. With Z of variants V1 (requires C==2) and V2,
\* P requiring Q, W and C, and Q requiring C==1, the request [Z, P] raises the
\* RequestNotFound of the V1 graph.
C11_OtherErrorsPropagate ==
    /\ \A i \in DOMAIN caught : caught[i] = "GraphResolutionError"
    /\ (reg = 7 /\ requests = <<Plain("Z"), Plain("P")>> /\ pc = "done") =>
           (result.kind = "raise" /\ result.err = "RequestNotFound")

\* The identifiers of the definitions returned, in the order of the list.
ReturnedIdentifiers ==
    [i \in DOMAIN result.definitions |-> generate_identifier(result.definitions[i])]

\* The list ids holds every node of the graph once, by descending priority.
ByDescendingPriority(ids, priority_mapping) ==
    /\ Range(ids) = node_identifiers(graph)
    /\ Len(ids) = Cardinality(node_identifiers(graph))
    /\ \A i, j \in DOMAIN ids :
          i < j => priority_mapping[ids[i]][1] >= priority_mapping[ids[j]][1]

\* A node is inserted in the graph when its _Node object is created: the
\* objects of the heap are in the order of their creation.
InsertedBefore(identifier1, identifier2) ==
    graph.node_mapping[identifier1] < graph.node_mapping[identifier2]

\* C15: the list returned holds the definition of every node left in the
\* graph, by descending priority, and of two nodes with the same priority the
\* one inserted first in the graph stands first.
C15_TiesByInsertionOrder ==
    Returned =>
        \E priority_mapping \in {compute_priority_mapping(graph, heap).mapping} :
        \E ids \in {ReturnedIdentifiers} :
            /\ ByDescendingPriority(ids, priority_mapping)
            /\ \A i, j \in DOMAIN ids :
                  (i < j /\ priority_mapping[ids[i]][1] = priority_mapping[ids[j]][1])
                      => InsertedBefore(ids[i], ids[j])

\* The first half of C15 alone: every node left, by descending priority.
DescendingPriority ==
    Returned =>
        \E priority_mapping \in {compute_priority_mapping(graph, heap).mapping} :
            ByDescendingPriority(ReturnedIdentifiers, priority_mapping)

\* The identifiers of the definitions get gives for a requirement.
Resolved(requirement) ==
    {generate_identifier(definition) :
        definition \in Range(get(requirement, definition_mapping).value)}

\* The link from the parent to the identifier, in the graph g over the heap h,
\* is the one created for the requirement with the weight.
LinkIs(g, h, identifier, parent_identifier, requirement, weight) ==
    /\ link_exists(g, h, identifier, parent_identifier)
    /\ link_requirement(g, h, identifier, parent_identifier) = requirement
    /\ link_weight(g, h, identifier, parent_identifier) = weight

\* C19: a link, once created, keeps its requirement and its weight whatever
\* is done to the graphs, a dictionary holding one link per parent and child;
\* the request of the same requirement twice, which creates the links from
\* root a second time, raises IncorrectDefinition and leaves the links created
\* for the first one, of weight 1.
C19_OneLinkPerPair ==
    [][/\ pc' # "start" =>
              \A i \in DOMAIN heap.dicts :
                  /\ i \in DOMAIN heap'.dicts
                  /\ \A child \in DOMAIN heap.dicts[i] :
                        /\ child \in DOMAIN heap'.dicts[i]
                        /\ heap'.dicts[i][child] = heap.dicts[i][child]
       /\ (pc = "start" /\ Len(requests) = 2 /\ requests[1] = requests[2]) =>
              /\ pc' = "done"
              /\ result' = Result("raise", << >>, "IncorrectDefinition", NoDiagnostic)
              /\ \A identifier \in Resolved(requests[1]) :
                    LinkIs(graph', heap', identifier, ROOT, requests[1], 1)
      ]_vars

\* The second of two equal requests raised IncorrectDefinition.
C19_SecondLinkRefused ==
    /\ pc = "done"
    /\ Len(requests) = 2
    /\ requests[1] = requests[2]
    /\ result.err = "IncorrectDefinition"
    /\ link_exists(graph, heap, generate_identifier(
                        get(requests[1], definition_mapping).value[1]), ROOT)

\* The requirements update_from_requirements is called with for a parent of
\* the graph g: the requests for root, the requirements of its definition
\* for a node.
RequirementsOf(g, h, parent_identifier) ==
    IF parent_identifier = ROOT THEN requests
    ELSE node(g, h, parent_identifier).definition.requirement

\* C20: when update_from_requirements has built the graph from the requests,
\* for the requests and for the requirements of every node, every node
\* resolved from the requirement of position k (from 1) has a link from the
\* parent with the weight k, so the variants resolved from one requirement
\* have the same weight; the weight of every link is a positive integer.
C20_WeightIsPosition ==
    [][/\ (pc = "start" /\ pc' = "loop") =>
              \A parent_identifier \in node_identifiers(stack'[1]) \cup {ROOT} :
              \E requirements \in
                     {RequirementsOf(stack'[1], heap', parent_identifier)} :
                  \A k \in DOMAIN requirements :
                  \A identifier \in Resolved(requirements[k]) :
                      LinkIs(stack'[1], heap', identifier, parent_identifier,
                             requirements[k], k)
       /\ \A i \in DOMAIN heap'.dicts : \A child \in DOMAIN heap'.dicts[i] :
              heap'.dicts[i][child].weight \in Nat \ {0}
      ]_vars

\* The graph is built with links of weight 1 from root to two variants, a
\* link of weight 2 from root and a link of weight 3 from a node.
C20_WeightsOneToThree ==
    /\ pc = "loop"
    /\ tags = <<Tag(0, << >>)>>
    /\ \E first, second, third, fourth \in node_identifiers(stack[1]) :
           /\ first # second
           /\ first.name = second.name
           /\ \E requirement \in Range(requests) :
                  /\ LinkIs(stack[1], heap, first, ROOT, requirement, 1)
                  /\ LinkIs(stack[1], heap, second, ROOT, requirement, 1)
           /\ link_exists(stack[1], heap, third, ROOT)
           /\ link_weight(stack[1], heap, third, ROOT) = 2
           /\ link_exists(stack[1], heap, fourth, third)
           /\ link_weight(stack[1], heap, fourth, third) = 3

-----------------------------------------------------------------------------
(* Properties of query *)

\* The definitions registered under the name of the requirement queried.
Registered == {d \in QueryMappings[reg] : d.identifier = requests[1].name}

\* C12: when query returns, it returns a definition registered under the name
\* of the requirement whose version is in the specifier, and no definition
\* registered under that name with a higher version has its version in the
\* specifier.
C12_HighestMatching ==
    (pc = "queried" /\ result.err = "") =>
        /\ result.value \in Registered
        /\ SpecifierContains(requests[1].specifier, result.value.version)
        /\ \A d \in Registered :
              d.version > result.value.version =>
                  ~SpecifierContains(requests[1].specifier, d.version)

\* query returned a version that is neither the highest nor the lowest
\* registered.
C12_MiddleVersionReturned ==
    /\ pc = "queried"
    /\ result.err = ""
    /\ \E d \in Registered : d.version > result.value.version
    /\ \E d \in Registered :
           /\ d.version < result.value.version
           /\ SpecifierContains(requests[1].specifier, d.version)

\* C13: query raises RequestNotFound, and returns nothing, when no definition
\* is registered under the name of the requirement or when no version
\* registered under it is in the specifier.
C13_NotFound ==
    (/\ pc = "queried"
     /\ \/ Registered = {}
        \/ \A d \in Registered :
               ~SpecifierContains(requests[1].specifier, d.version))
        => result = Raise("RequestNotFound")

\* query raised for a name that is registered, each version registered under
\* it being outside the specifier.
C13_NoVersionMatches ==
    /\ pc = "queried"
    /\ reg = 1
    /\ requests[1].name = "A"
    /\ requests[1].specifier = {Clause(">", 19)}
    /\ result.err = "RequestNotFound"

\* C14: when the unknown version and a version are both registered under the
\* name, query raises RequestNotFound whatever the specifier, also when it
\* contains the version registered.
C14_MixedVersionsRefused ==
    (/\ pc = "queried"
     /\ \E d \in Registered : d.version = UNKNOWN_VALUE
     /\ \E d \in Registered : d.version # UNKNOWN_VALUE)
        => result = Raise("RequestNotFound")

\* query raised although the specifier contains the version registered beside
\* the unknown one.
C14_RefusedAlthoughMatching ==
    /\ pc = "queried"
    /\ reg = 2
    /\ requests[1] = Requirement("A", {Clause("==", 14)}, {})
    /\ result.err = "RequestNotFound"

-----------------------------------------------------------------------------
(* Properties of compute_priority_mapping *)

\* A node of the node mapping, or root.
Live(identifier) == identifier = ROOT \/ identifier \in DOMAIN graph.node_mapping

\* There is a link from parent to child and both are live.
Linked(parent, child) ==
    /\ Live(parent)
    /\ child \in DOMAIN graph.node_mapping
    /\ parent \in DOMAIN graph.link_mapping
    /\ child \in DOMAIN heap.dicts[graph.link_mapping[parent]]

Weight(parent, child) == heap.dicts[graph.link_mapping[parent]][child].weight

RECURSIVE LivePaths(_)
\* The paths of at most n links that start at root, go along links through
\* live nodes and pass no node twice.
LivePaths(n) ==
    IF n = 0 THEN {<<ROOT>>}
    ELSE LET shorter == LivePaths(n - 1)
         IN  shorter \cup
             UNION {{Append(path, child) :
                        child \in {c \in DOMAIN graph.node_mapping :
                                      Linked(path[Len(path)], c) /\ c \notin Range(path)}} :
                    path \in shorter}

AllLivePaths == LivePaths(Cardinality(DOMAIN graph.node_mapping))

RECURSIVE PathWeight(_)
PathWeight(path) ==
    IF Len(path) <= 1 THEN 0
    ELSE PathWeight(SubSeq(path, 1, Len(path) - 1))
             + Weight(path[Len(path) - 1], path[Len(path)])

\* The greatest weight of a path of paths that ends at the identifier.
LongestTo(paths, identifier) ==
    CHOOSE w \in {PathWeight(path) : path \in {q \in paths : q[Len(q)] = identifier}} :
        \A path \in {q \in paths : q[Len(q)] = identifier} : PathWeight(path) <= w

RECURSIVE LiveDescendants(_, _)
\* The live nodes reached from the nodes of S along at most n links.
LiveDescendants(S, n) ==
    IF n = 0 THEN {}
    ELSE LET children == {c \in DOMAIN graph.node_mapping :
                             \E parent \in S : Linked(parent, c)}
         IN  children \cup LiveDescendants(children, n - 1)

\* No live node is reached from itself.
Acyclic ==
    \A identifier \in DOMAIN graph.node_mapping :
        identifier \notin
            LiveDescendants({identifier}, Cardinality(DOMAIN graph.node_mapping))

Prioritised == pc = "prioritised"

C18_NoneWhenUnreached ==
    (Prioritised /\ ~result.diverged) =>
        /\ DOMAIN result.mapping = (DOMAIN graph.node_mapping) \cup {ROOT}
        /\ result.mapping[ROOT][1] = 0
        /\ \E paths \in {AllLivePaths} :
           \A identifier \in DOMAIN graph.node_mapping :
               result.mapping[identifier][1] = None
                   <=> ~\E path \in paths : path[Len(path)] = identifier

\* A live node has the priority None although links lead to it from root
\* through a node that was removed.
C18_UnreachedThroughRemoved ==
    /\ Prioritised
    /\ ~result.diverged
    /\ \E identifier \in DOMAIN graph.node_mapping :
       \E removed \in PriorityNodes \ DOMAIN graph.node_mapping :
           /\ result.mapping[identifier][1] = None
           /\ ROOT \in DOMAIN graph.link_mapping
           /\ removed \in DOMAIN heap.dicts[graph.link_mapping[ROOT]]
           /\ removed \in DOMAIN graph.link_mapping
           /\ identifier \in DOMAIN heap.dicts[graph.link_mapping[removed]]

\* The smallest weight of a path of paths that ends at the identifier.
ShortestTo(paths, identifier) ==
    CHOOSE w \in {PathWeight(path) : path \in {q \in paths : q[Len(q)] = identifier}} :
        \A path \in {q \in paths : q[Len(q)] = identifier} : w <= PathWeight(path)

\* C32: in the mapping returned for an acyclic graph, the priority of a node
\* reached from root along several paths is the smallest sum of the weights
\* of a path from root to the node.
C32_ShortestPath ==
    (Prioritised /\ Acyclic /\ ~result.diverged) =>
        \E paths \in {AllLivePaths} :
        \A identifier \in {path[Len(path)] : path \in paths} \ {ROOT} :
            result.mapping[identifier][1] = ShortestTo(paths, identifier)

-----------------------------------------------------------------------------
(* Properties of the operations of Graph *)

\* C21: remove_node(identifier) deletes the entry of the identifier from the
\* node mapping and nothing else: the other nodes stay, and the links (those
\* that lead to the node and those that leave it), the identifiers recorded
\* per definition and the variant groups are as they were.
C21_RemovesNodeEntryOnly ==
    [][(pc = "graph" /\ runs' # runs /\ result'.kind = "remove_node") =>
          /\ result'.err = ""
          /\ DOMAIN graph'.node_mapping =
                 (DOMAIN graph.node_mapping) \ {result'.definitions[1]}
          /\ \A identifier \in DOMAIN graph'.node_mapping :
                 graph'.node_mapping[identifier] = graph.node_mapping[identifier]
          /\ graph'.link_mapping = graph.link_mapping
          /\ graph'.definition_mapping = graph.definition_mapping
          /\ graph'.variant_mapping = graph.variant_mapping
          /\ heap' = heap
      ]_vars

\* A node with a link to it and a link from it was removed, another node
\* being left.
C21_LinkedNodeRemoved ==
    /\ pc = "graph"
    /\ result.kind = "remove_node"
    /\ result.definitions[1] \in DOMAIN graph.link_mapping
    /\ link_exists(graph, heap, result.definitions[1], ROOT)
    /\ node_identifiers(graph) # {}

\* The nodes of the graph that have the definition of the identifier.
LiveOfDefinition(identifier) ==
    {other \in node_identifiers(graph) : other.name = identifier.name}

\* C22: conflicts() returns the nodes of the graph whose definition has two
\* nodes or more in the graph, and no other: not a node left alone by the
\* removal of the other nodes of its definition.
C22_ConflictsHaveLiveSibling ==
    pc = "graph" =>
        conflicts(graph, heap) =
            {identifier \in node_identifiers(graph) :
                Cardinality(LiveOfDefinition(identifier)) >= 2}

\* C23: every group variant_groups() returns has all its members in the node
\* mapping, whatever nodes remove_node has removed.
C23_GroupsAreLive ==
    pc = "graph" =>
        \A group \in variant_groups(graph) :
            Range(group) \subseteq node_identifiers(graph)

-----------------------------------------------------------------------------
(* Properties of combined_requirement *)

\* The nodes of the list whose requirement is the requirement of no node
\* before them in the list.
WithoutDuplicates ==
    SelectSeq(identifiers,
        LAMBDA id : \A i \in DOMAIN identifiers :
            (requests[i] = requests[id.version - 10]) => id.version - 10 <= i)

\* The name and the specifier of what combined_requirement gives for a list,
\* or the exception.
NameAndSpecifier(combined) ==
    IF combined.err # "" THEN <<combined.err>>
    ELSE <<combined.value.name, combined.value.specifier>>

\* C24: what combined_requirement returns for a list of nodes has the name
\* and the specifier it has for the list without the nodes whose requirement
\* is the one of an earlier node, and for the list in any other order; when
\* the requirements have the same extras, as validate_node_requirements
\* ensures, the whole requirement returned is the same.
C24_CombinedIgnoresDuplicatesAndOrder ==
    pc = "combined" =>
        \E priority_mapping \in {compute_priority_mapping(graph, heap).mapping} :
        \A ids \in Orders(Range(identifiers)) \cup {WithoutDuplicates} :
        \E combined \in {combined_requirement(graph, heap, ids, priority_mapping)} :
            /\ NameAndSpecifier(combined) = NameAndSpecifier(result)
            /\ (\A i, j \in DOMAIN requests : requests[i].extras = requests[j].extras)
                   => combined = result

\* Three nodes are combined, two with the same requirement and one with
\* another clause, into a requirement of two clauses.
C24_DuplicateCombined ==
    /\ pc = "combined"
    /\ Len(requests) = 3
    /\ requests[1] = requests[3]
    /\ requests[1] # requests[2]
    /\ Len(WithoutDuplicates) = 2
    /\ result.err = ""
    /\ Cardinality(result.value.specifier) = 2

\* C24 as stated: moreover the whole requirement returned, extras included,
\* is the same for the nodes in any other order.
C24_WholeResultIgnoresOrder ==
    pc = "combined" =>
        \E priority_mapping \in {compute_priority_mapping(graph, heap).mapping} :
            /\ NameAndSpecifier(combined_requirement(
                   graph, heap, WithoutDuplicates, priority_mapping))
                   = NameAndSpecifier(result)
            /\ \A ids \in Orders(Range(identifiers)) :
                   combined_requirement(graph, heap, ids, priority_mapping) = result

-----------------------------------------------------------------------------
(* Properties of divide and of resolve_conflicts *)

RECURSIVE ProductOfSizes(_)
\* The product of the sizes of the variant groups of a set.
ProductOfSizes(groups) ==
    IF groups = {} THEN 1
    ELSE LET group == CHOOSE x \in groups : TRUE
         IN  Len(group) * ProductOfSizes(groups \ {group})

\* What divide must give for the graph g: nothing without a variant group,
\* else as many graphs as the product of the sizes of the groups.
DividesIntoProduct(g, d) ==
    /\ d.err = ""
    /\ Len(d.pushed) = d.number
    /\ d.number = IF variant_groups(g) = {} THEN 0
                  ELSE ProductOfSizes(variant_groups(g))

\* C28: divide returns 0 and pushes nothing when the graph has no variant
\* group; otherwise the number it returns, and the number of graphs it appends
\* to the stack, is the product of the sizes of the variant groups of the
\* graph, and the graph it was given and the objects it refers to are as they
\* were.
C28_DivideCountsCombinations ==
    /\ [](pc = "loop" /\ Len(stack) # 0 =>
            \E priority_mapping \in {compute_priority_mapping(Last(stack), heap)} :
                \/ priority_mapping.diverged
                \/ \A values \in Orders(variant_groups(Last(stack))) :
                      DividesIntoProduct(Last(stack),
                          divide(Last(stack), priority_mapping.mapping, values)))
    /\ [][/\ (pc = "loop" /\ pc' # "done") =>
               IF variant_groups(Last(stack)) = {}
               THEN /\ division' = division
                    /\ stack' = Front(stack)
                    /\ graph' = Last(stack)
                    /\ heap' = heap
               ELSE /\ division'.count = division.count + 1
                    /\ division'.source = Last(stack)
                    /\ Len(division'.pushed) = ProductOfSizes(variant_groups(Last(stack)))
                    /\ stack' = Front(stack) \o division'.pushed
                    /\ heap' = heap
          /\ (pc = "resolve" /\ division' # division) =>
               /\ variant_groups(division'.source) # {}
               /\ Len(division'.pushed) =
                      ProductOfSizes(variant_groups(division'.source))
               /\ stack' = stack \o division'.pushed
         ]_vars

\* A graph with two variant groups of two members has been divided into four
\* graphs.
C28_DividedIntoFour ==
    /\ division.count > 0
    /\ Cardinality(variant_groups(division.source)) = 2
    /\ Len(division.pushed) = 4
    /\ Len(stack) >= 3

\* C30: at the head of an iteration of the loop of resolve_conflicts, once
\* the priorities are computed again, the unreachable nodes removed and the
\* conflict list filtered, the list holds no identifier whose priority is
\* None.
C30_NoUnreachableInConflictList ==
    pc = "resolve" =>
        \E priority_mapping \in {compute_priority_mapping(graph, heap)} :
            \/ priority_mapping.diverged
            \/ \A id \in Range(reachable_identifiers(identifiers,
                                                     priority_mapping.mapping)) :
                  priority_mapping.mapping[id][1] # None

\* The graphs update_from_requirement (line 226) leaves in the iteration of
\* the loop of resolve_conflicts that starts in the current state: none when
\* the iteration adds no requirement.
AddedInIteration ==
    UNION {
      IF priority_mapping.diverged THEN {}
      ELSE UNION {
        IF Len(ids) = 0 \/ ~node_exists(g, Last(ids)) THEN {}
        ELSE UNION {
          IF valid.err # "" THEN {}
          ELSE UNION {
            IF requirement.err # "" THEN {}
            ELSE UNION {
              IF \/ found.err # ""
                 \/ Last(ids) \in found.value
                 \/ found.value \ Range(conflicted) = {}
              THEN {}
              ELSE {update_from_requirement(
                        Context(remove_node(Context(g, heap), Last(ids)).g, heap),
                        requirement.value, ROOT, 1)}
              : found \in {identifiers_from_requirement(requirement.value)}}
            : requirement \in {combined_requirement(
                                   g, heap, <<Last(ids)>> \o conflicted,
                                   priority_mapping.mapping)}}
          : <<conflicted, valid>> \in
                UNION {{<<c, v>> : v \in validate_node_requirements(
                                            g, heap, Last(ids), c)}
                       : c \in Orders(conflicted_identifiers(g, heap, Last(ids)))}}
        : <<g, ids>> \in
              {<<remove_unreachable_nodes(graph, priority_mapping.mapping),
                 sort_identifiers(
                     reachable_identifiers(identifiers, priority_mapping.mapping),
                     priority_mapping.mapping)>>}}
      : priority_mapping \in {compute_priority_mapping(graph, heap)}}

\* C29: when the requirement added by resolve_conflicts leaves a variant
\* group in the graph, resolve_conflicts raises GraphResolutionError, the graph
\* is not returned, and the graphs of the division are on top of the graphs
\* that were on the stack, so that they are popped first.
C29_DividedWhileResolving ==
    [][(/\ pc = "resolve"
        /\ \E C \in AddedInIteration : variant_groups(C.g) # {})
          => /\ pc' = "loop"
             /\ caught' = Append(caught, "GraphResolutionError")
             /\ division'.count = division.count + 1
             /\ stack' = stack \o division'.pushed
             /\ \A i \in DOMAIN tags', j \in DOMAIN tags' :
                   i < j => tags'[i].division <= tags'[j].division]_vars

\* C31: when divide runs on the graph popped, the members of a variant group
\* all have the same priority, so that the priority of the first member is the
\* smallest priority of the group.
C31_GroupMembersSamePriority ==
    (pc = "loop" /\ Len(stack) # 0) =>
        \E priority_mapping \in {compute_priority_mapping(Last(stack), heap)} :
            \/ priority_mapping.diverged
            \/ \A group \in variant_groups(Last(stack)) :
               \A member \in Range(group) :
                   priority_mapping.mapping[member][1]
                       = priority_mapping.mapping[group[1]][1]

\* The node the iteration of the loop of resolve_conflicts that starts in the
\* current state picks (line 191), with the graph left by
\* _remove_unreachable_nodes and the priority of the node: nothing when the
\* filtered list is empty.
PickedInIteration ==
    IF pc # "resolve" THEN {}
    ELSE UNION {
      IF priority_mapping.diverged THEN {}
      ELSE UNION {
        IF Len(ids) = 0 THEN {}
        ELSE {[g |-> remove_unreachable_nodes(graph, priority_mapping.mapping),
               identifier |-> Last(ids),
               priority |-> priority_mapping.mapping[Last(ids)][1]]}
        : ids \in {sort_identifiers(
                      reachable_identifiers(identifiers, priority_mapping.mapping),
                      priority_mapping.mapping)} }
      : priority_mapping \in {compute_priority_mapping(graph, heap)} }

\* C37: validate_node_requirements returns or raises GraphResolutionError
\* with both requirements and both parents; it fails with no other error,
\* whatever the pair of requirements in conflict.
C37_ValidationRaisesOnlyResolutionError ==
    \A picked \in {p \in PickedInIteration : node_exists(p.g, p.identifier)} :
    \A conflicted \in Orders(conflicted_identifiers(picked.g, heap,
                                                    picked.identifier)) :
    \A valid \in validate_node_requirements(picked.g, heap, picked.identifier,
                                            conflicted) :
        \/ valid.err = ""
        \/ /\ valid.err = "GraphResolutionError"
           /\ valid.message.requirement1 # NoRequirement
           /\ valid.message.requirement2 # NoRequirement
           /\ valid.message.parent1 # NoId
           /\ valid.message.parent2 # NoId

\* C38: the identifier resolve_conflicts picks is a node of the graph and has
\* a priority.
C38_PickedNodeIsLive ==
    \A picked \in PickedInIteration :
        /\ node_exists(picked.g, picked.identifier)
        /\ picked.priority # None

\* A node is picked while the conflict list holds the identifier of a node
\* that has just been removed as unreachable.
C38_PickedBesideUnreachable ==
    \E picked \in PickedInIteration :
        /\ node_exists(picked.g, picked.identifier)
        /\ \E id \in Range(identifiers) :
               node_exists(graph, id) /\ ~node_exists(picked.g, id)

\* C39: every definition of the list compute_definitions returns belongs to
\* a node of the final graph that has a priority: it can be reached from root.
C39_ReturnedAreReachable ==
    Returned =>
        \E priority_mapping \in {compute_priority_mapping(graph, heap)} :
        \A identifier \in Range(ReturnedIdentifiers) :
            /\ node_exists(graph, identifier)
            /\ priority_mapping.mapping[identifier][1] # None

\* The list is returned from a graph made by a division, which left in it a
\* node that could not be reached: the only node of its definition, it is
\* neither the variant left out nor a node removed for a conflict.
C39_OrphanLeftOut ==
    /\ Returned
    /\ division.count >= 1
    /\ \E id \in node_identifiers(division.source) :
           /\ ~node_exists(graph, id)
           /\ id \notin Range(ReturnedIdentifiers)
           /\ Cardinality(heap.sets[graph.definition_mapping[id.name]]) = 1

\* The names the definition called name requires in the registry r, through
\* the package or one of its variants.
RequiredNames(r, name) ==
    {q.name : q \in UNION {Range(p.requirement)
                              \cup UNION {Range(v.requirement) : v \in Range(p.variants)} :
                           p \in {p \in Registries[r] : p.identifier = name}}}

RECURSIVE RequiredWithin(_, _, _)
RequiredWithin(r, names, n) ==
    IF n = 0 THEN names
    ELSE RequiredWithin(r, names \cup UNION {RequiredNames(r, x) : x \in names},
                        n - 1)

\* No definition of the registry r requires itself, directly or not.
AcyclicRegistry(r) ==
    \A p \in Registries[r] :
        p.identifier \notin RequiredWithin(r, RequiredNames(r, p.identifier),
                                           Cardinality(Registries[r]))

\* C35: with a registry whose requirement relation is acyclic,
\* compute_definitions terminates: no call takes steps for ever (from some
\* point on the only steps are calls made after a call has ended, and there
\* are at most MaxRuns of them), and a call that has ended returned or raised.
C35_Terminates ==
    AcyclicRegistry(reg) =>
        /\ <>[][pc = "done"]_vars
        /\ [](pc = "done" => result.kind \in {"return", "raise"})

\* A call has ended after conflict resolution divided a graph again.
C35_EndedAfterSecondDivision ==
    /\ pc = "done"
    /\ AcyclicRegistry(reg)
    /\ result.kind \in {"return", "raise"}
    /\ division.count >= 2

\* The requirements of the list name different definitions: no two of them
\* resolve to the same node.
DistinctNames(requirements) ==
    \A i, j \in DOMAIN requirements :
        i # j => requirements[i].name # requirements[j].name

\* No parent, root included, has two requirements that resolve to the same
\* node.
WellFormed ==
    /\ DistinctNames(requests)
    /\ \A p \in Registries[reg] :
           /\ DistinctNames(p.requirement)
           /\ \A v \in Range(p.variants) :
                  DistinctNames(p.requirement \o v.requirement)

\* C36: with well-formed definitions no operation on a graph raises the
\* IncorrectDefinition of _create_link: none is caught by compute_definitions
\* and none leaves it.
C36_NoDuplicateLink ==
    WellFormed =>
        /\ result.err # "IncorrectDefinition"
        /\ "IncorrectDefinition" \notin Range(caught)

\* C34: compute_priority_mapping terminates on every graph that
\* update_from_requirements builds, the graph built from definitions whose
\* requirements form a cycle included.
C34_PriorityMappingTerminates ==
    (pc = "loop" /\ Len(stack) # 0) =>
        ~compute_priority_mapping(Last(stack), heap).diverged

\* C33: compute_definitions never leaves its loop with an empty stack: the
\* stack is not empty when the test of the loop is made, and a call that ends
\* has returned the list extracted or raised an exception.
C33_NeverEndsWithoutResult ==
    /\ pc = "loop" => Len(stack) # 0
    /\ pc = "done" => result.kind \in {"return", "raise", "hang"}
    /\ (pc = "done" /\ result.kind = "raise") => result.err # ""

\* Every graph of the stack has failed and the exception of the last one is
\* raised.
C33_LastAlternativeRaised ==
    /\ pc = "done"
    /\ result.kind = "raise"
    /\ Len(caught) >= 1
    /\ Len(attempts) = Len(caught) + 1

-----------------------------------------------------------------------------
(* Properties of _PriorityQueue *)

\* C40: pop_smallest on a queue that is not empty returns an identifier of
\* the mapping whose priority is the smallest of the mapping (the first of
\* them in the order of the identifiers) and removes it, leaving the other
\* items as they were; and after a set the heap holds at most twice as many
\* entries as the mapping.
C40_PopsSmallestAndHeapBounded ==
    /\ (result.kind = "pop" /\ previous # EmptyMap) =>
           /\ result.err = ""
           /\ result.identifier \in DOMAIN previous
           /\ \A other \in DOMAIN previous :
                  previous[result.identifier] <= previous[other]
           /\ result.identifier = pop_smallest(previous)
           /\ identifiers = Del(previous, result.identifier)
    /\ result.kind = "set" =>
           /\ Len(heap) <= 2 * Cardinality(DOMAIN identifiers)
           /\ identifiers = Put(previous, result.identifier,
                                identifiers[result.identifier])

\* pop_smallest has skipped two entries of the heap, superseded or of an
\* identifier popped before, and returned an identifier from a mapping of
\* two or more with different priorities.
C40_PoppedPastStaleEntries ==
    /\ result.kind = "pop"
    /\ result.err = ""
    /\ result.skipped >= 2
    /\ \E a, b \in DOMAIN previous : previous[a] # previous[b]

-----------------------------------------------------------------------------
(* Properties of Definition *)

\* C25: the definition constructed from what encode wrote has the mapping of
\* the definition encoded.
C25_RoundTrip ==
    pc = "loaded" => result.err = "" /\ result.value = requests

-----------------------------------------------------------------------------
(* Properties of fetch *)

\* Whether fetch validates the definition discovered at index i.
Validated(i) == ~requests.requests \/ validate(stack[i], requests.list)

\* The definitions discovered that fetch records for implicit use.
AutoUse == {i \in DOMAIN stack : Validated(i) /\ stack[i].auto_use}

\* The implicit list has one entry per identifier of an auto-use definition,
\* naming its highest auto-use version.
OneEntryPerAutoUse ==
    /\ \A i \in AutoUse :
          \E n \in DOMAIN result.implicit : result.implicit[n][1] = stack[i].identifier
    /\ \A n, m \in DOMAIN result.implicit :
          result.implicit[n][1] = result.implicit[m][1] => n = m
    /\ \A n \in DOMAIN result.implicit :
          /\ \E i \in AutoUse : <<stack[i].identifier, stack[i].version>> = result.implicit[n]
          /\ \A i \in AutoUse :
                stack[i].identifier = result.implicit[n][1]
                    => stack[i].version <= result.implicit[n][2]

\* The index at which the first auto-use definition of an identifier was
\* discovered.
FirstDiscovered(identifier) ==
    CHOOSE i \in AutoUse :
        /\ stack[i].identifier = identifier
        /\ \A j \in AutoUse : stack[j].identifier = identifier => i <= j

\* C26, as stated: the entries of the implicit list are in the order in which
\* their identifiers were discovered.
C26_ImplicitInDiscoveryOrder ==
    (pc = "fetched" /\ result.err = "") =>
        /\ OneEntryPerAutoUse
        /\ \A n, m \in DOMAIN result.implicit :
              n < m => FirstDiscovered(result.implicit[n][1])
                          < FirstDiscovered(result.implicit[m][1])

\* C26, amended: when fetch returns, the implicit list holds one entry per
\* identifier that has an auto-use definition among those validated, naming
\* the highest auto-use version of the identifier, and the entries are in the
\* inverse order of discovery: the identifier discovered last comes first.
C26_ImplicitInInverseOrder ==
    (pc = "fetched" /\ result.err = "") =>
        /\ OneEntryPerAutoUse
        /\ \A n, m \in DOMAIN result.implicit :
              n < m => FirstDiscovered(result.implicit[n][1])
                          > FirstDiscovered(result.implicit[m][1])

\* Two identifiers have auto-use definitions, one of them in two versions of
\* which the lower was discovered last.
C26_TwoImplicitPackages ==
    /\ pc = "fetched"
    /\ result.err = ""
    /\ Len(result.implicit) = 2
    /\ Cardinality(AutoUse) = 3
    /\ stack[3].identifier = <<"A", "b">>
    /\ stack[3].version = 10
    /\ <<stack[3].identifier, 20>> \in Range(result.implicit)

\* Whether a definition of the identifier and the version of the definition
\* discovered at index i is in the mapping returned.
Kept(i) ==
    \E d \in result.package :
        d.identifier = stack[i].identifier /\ d.version = stack[i].version

\* Whether the name is part of the string, in lower case.
Contains(name, string) ==
    \E lower \in {[c \in {"a", "A", "b", "B", "u", "n", "k", "o", "w", "x"} |->
                      CASE c = "A" -> "a" [] c = "B" -> "b" [] OTHER -> c]} :
    \E k \in 0..(Len(string) - Len(name)) :
        \A n \in DOMAIN name : lower[string[k + n]] = lower[name[n]]

\* C27, as stated: with requests, a definition is kept exactly when its
\* identifier or description contains the name of one request at least and
\* its version is in the specifier of every request.
C27_KeptWhenOneNameMatches ==
    (pc = "fetched" /\ result.err = "" /\ requests.requests) =>
        \A i \in DOMAIN stack :
            Kept(i) <=>
                /\ \E n \in DOMAIN requests.list :
                      \/ Contains(requests.list[n].name, stack[i].identifier)
                      \/ Contains(requests.list[n].name, stack[i].description)
                /\ \A n \in DOMAIN requests.list :
                      SpecifierContains(requests.list[n].specifier, stack[i].version)

\* C27, amended: with requests, a definition is kept exactly when the list
\* of requests is not empty, its identifier or description contains the name
\* of every request, and its version is in the specifier of every request.
C27_KeptWhenEveryNameMatches ==
    (pc = "fetched" /\ result.err = "" /\ requests.requests) =>
        \A i \in DOMAIN stack :
            Kept(i) <=>
                /\ requests.list # << >>
                /\ \A n \in DOMAIN requests.list :
                      /\ \/ Contains(requests.list[n].name, stack[i].identifier)
                         \/ Contains(requests.list[n].name, stack[i].description)
                      /\ SpecifierContains(requests.list[n].specifier, stack[i].version)

\* With the requests a and n, the definition Ab, which has no description,
\* is kept and the definition b is not.
C27_OneKeptOfTwo ==
    /\ pc = "fetched"
    /\ result.err = ""
    /\ requests.requests
    /\ {requests.list[n].name : n \in DOMAIN requests.list} = {<<"a">>, <<"n">>}
    /\ {stack[i].identifier : i \in DOMAIN stack} = {<<"A", "b">>, <<"b">>}
    /\ {d.identifier : d \in result.package} = {<<"A", "b">>}

====
